---- MODULE Spec2Model ----
(***************************************************************************)
(* A model of the personal-finance web client (bolt_financial_ai):         *)
(*   - the Reports page's aggregation pipeline (fetchReportData,           *)
(*     processMonthlyData, processCategoryData, calculateStats),           *)
(*   - the Wallets and Transactions editors (fetch, modal form, submit,    *)
(*     delete) against the remote store,                                   *)
(*   - the Dashboard's load (fetchData), the Settings page's password      *)
(*     form (handlePasswordUpdate) and the chat assistant (AIAssistant).   *)
(* The remote store (supabase-js) and date-fns are external libraries;     *)
(* they are modelled at the call sites by the behaviour the calls have.    *)
(***************************************************************************)
EXTENDS Integers, Sequences, FiniteSets, TLC

VARIABLES
    \* ---- which page component is mounted (src/unnamed/part_000, routes)
    page,
    \* ---- Reports page (src/src/pages/Reports.tsx, lines 24-137)
    today,          \* the value of `new Date()` (local calendar date)
    tzWest,         \* TRUE when the browser's local time is behind UTC
    txs,            \* the rows the store holds, ordered by date ascending
    loading,        \* the mounted page's `loading`
    monthlyData,    \* Reports.monthlyData
    categoryData,   \* Reports.categoryData
    stats,          \* Reports.stats
    lastFetch,      \* how the last report fetch ended: none | data | null | throw
    pending,        \* a load (the effect's fetch) of the mounted page is in flight
    fetched,        \* the rows the last successful report fetch read (Null: none)
    loads,          \* how many times the `[user]` effect has run again
    \* ---- the remote store, as the Wallets and Transactions pages see it
    storeWallets,       \* rows of table wallets
    storeTransactions,  \* rows of table transactions
    nextId,             \* the id the store gives the next inserted row
    \* ---- Wallets (src/src/pages/Wallets.tsx, lines 23-118) and
    \* ---- Transactions (src/src/pages/Reports.tsx, lines 323-445)
    wallets,        \* Wallets.wallets / Transactions.wallets
    transactions,   \* Transactions.transactions
    categories,     \* Transactions.categories
    isModalOpen,
    editing,        \* editingWallet / editingTransaction (Null or a row)
    formData,
    isSaving,
    ops,            \* the handler invocations suspended at an await
    started,        \* how many submit / delete handlers have sent a request
    confirmAnswer,  \* what the last confirm() dialog returned: none | yes | no
    \* ---- Settings (src/unnamed/part_001), the password form
    passwords,      \* { newPassword, confirmPassword }
    message,        \* { type, text }
    authRequests,   \* the passwords sent with supabase.auth.updateUser, in order
    \* ---- AIAssistant (src/src/components/AIAssistant.tsx)
    user,           \* useAuth().user: Null or the signed-in user
    messages,       \* the message list, [role, content] in order
    input,
    isLoading,
    handler,        \* the handleSubmit invocation suspended at an await, with
                    \* the `input` of its closure and its locals
    chatInserts     \* the rows sent to ai_chat_logs, in order

reportVars == <<today, tzWest, txs, monthlyData, categoryData, stats, lastFetch,
                pending, fetched, loads>>

storeVars == <<storeWallets, storeTransactions, nextId>>

editorVars == <<wallets, transactions, categories, isModalOpen, editing,
                formData, isSaving, ops, started, confirmAnswer>>

settingsVars == <<passwords, message, authRequests>>

assistantVars == <<user, messages, input, isLoading, handler, chatInserts>>

vars == <<page, loading, reportVars, storeVars, editorVars, settingsVars,
          assistantVars>>

(***************************************************************************)
(* Bounds of the model.                                                    *)
(***************************************************************************)
\* longest transaction list handed to the aggregation pipeline
MaxTx == 3
\* significand width of the model's binary floating point (a JS number has 53)
MantissaBits == 3
\* handler invocations that can be suspended at an await at the same time
MaxOps == 2
\* the store accepts inserts while the next row id is at most MaxRows
MaxRows == 3
\* submit / delete handlers that send a request in one run of a page
MaxHandlers == 1
\* times the `[user]` effect of a mounted page runs again after the mount
MaxLoads == 2
\* exchanges in one conversation with the assistant
MaxChats == 2
\* password-update requests sent in one run of the Settings page
MaxUpdates == 2

(***************************************************************************)
(* JS numbers.  `a + b` and `a - b` on numbers are IEEE-754 operations:    *)
(* the exact result rounded to the nearest representable value, ties to    *)
(* even.  Values here are integers; the significand is MantissaBits wide.  *)
(***************************************************************************)
RECURSIVE Pow2(_)
Pow2(n) == IF n = 0 THEN 1 ELSE 2 * Pow2(n - 1)

RECURSIVE Ulp(_)
\* the spacing of representable values around magnitude n
Ulp(n) == IF n < Pow2(MantissaBits) THEN 1 ELSE 2 * Ulp(n \div 2)

RoundMag(n) ==
    LET q == Ulp(n)
        m == n \div q
        r == n % q
    IN  IF 2 * r > q \/ (2 * r = q /\ m % 2 = 1) THEN (m + 1) * q ELSE m * q

FRound(x) == IF x < 0 THEN 0 - RoundMag(0 - x) ELSE RoundMag(x)

FAdd(a, b) == FRound(a + b)

FSub(a, b) == FRound(a - b)

(***************************************************************************)
(* Calendar dates, date-fns subMonths and format(_, 'MMM yyyy').           *)
(***************************************************************************)
MonthName == <<"Jan", "Feb", "Mar", "Apr", "May", "Jun",
               "Jul", "Aug", "Sep", "Oct", "Nov", "Dec">>

IsLeap(y) == (y % 4 = 0 /\ y % 100 # 0) \/ y % 400 = 0

DaysInMonth(y, m) ==
    IF m = 2 THEN (IF IsLeap(y) THEN 29 ELSE 28)
    ELSE IF m \in {4, 6, 9, 11} THEN 30 ELSE 31

MkDate(y, m, d) == [y |-> y, m |-> m, d |-> d]

\* (mutant) the month arithmetic of Date.setMonth: a day the target month
\* does not have rolls over into the month after it
SubMonths_Rollover(date, n) ==
    LET idx  == date.y * 12 + (date.m - 1) - n
        y    == idx \div 12
        m    == (idx % 12) + 1
        dim  == DaysInMonth(y, m)
        nidx == idx + 1
    IN  IF date.d > dim THEN MkDate(nidx \div 12, (nidx % 12) + 1, date.d - dim)
        ELSE MkDate(y, m, date.d)

\* date-fns subMonths(date, n): the same day of the month n months earlier,
\* or that month's last day when it has fewer days
SubMonths(date, n) ==
    LET idx == date.y * 12 + (date.m - 1) - n
        y   == idx \div 12
        m   == (idx % 12) + 1
        dim == DaysInMonth(y, m)
    IN  MkDate(y, m, IF date.d >= dim THEN dim ELSE date.d)

\* format(date, 'MMM yyyy'): short month name and year of a local date
FormatMonthKey(date) == <<MonthName[date.m], date.y>>

PrevDay(date) ==
    IF date.d > 1 THEN MkDate(date.y, date.m, date.d - 1)
    ELSE IF date.m > 1
         THEN MkDate(date.y, date.m - 1, DaysInMonth(date.y, date.m - 1))
         ELSE MkDate(date.y - 1, 12, 31)

\* new Date('yyyy-MM-dd'): a date-only string is midnight UTC of that day;
\* the local calendar date of that instant is the day before when local
\* time is behind UTC, the same day otherwise
ParseDateLocal(dateStr, west) == IF west THEN PrevDay(dateStr) ELSE dateStr

(***************************************************************************)
(* processMonthlyData                                                      *)
(***************************************************************************)
\* position of key in an insertion-ordered object (0 when absent)
KeyIndex(obj, key) ==
    IF \E k \in 1..Len(obj) : obj[k].name = key
    THEN CHOOSE k \in 1..Len(obj) : obj[k].name = key
    ELSE 0

\* obj[key] = val on a JS object: a new key is appended, an existing key
\* keeps its place
ObjSet(obj, key, val) ==
    LET k == KeyIndex(obj, key)
    IN  IF k = 0 THEN Append(obj, val) ELSE [obj EXCEPT ![k] = val]

RECURSIVE InitMonths(_, _)
\* the loop `for (let i = 5; i >= 0; i--)`: its iterations 5, 4, .., i
InitMonths(now, i) ==
    LET key  == FormatMonthKey(SubMonths(now, i))
        rest == IF i = 5 THEN <<>> ELSE InitMonths(now, i + 1)
    IN  ObjSet(rest, key, [name |-> key, income |-> 0, expense |-> 0])

MonthsWindow(now) == InitMonths(now, 0)

AddToMonth(monthsData, transaction, west) ==
    LET monthKey == FormatMonthKey(ParseDateLocal(transaction.date, west))
        k        == KeyIndex(monthsData, monthKey)
    IN  IF k = 0 THEN monthsData
        ELSE IF transaction.type = "income"
             THEN [monthsData EXCEPT ![k].income = FAdd(@, transaction.amount)]
        ELSE IF transaction.type = "expense"
             THEN [monthsData EXCEPT ![k].expense = FAdd(@, transaction.amount)]
        ELSE monthsData

RECURSIVE FoldMonths(_, _, _)
\* transactions.forEach(...), first to last
FoldMonths(monthsData, rows, west) ==
    IF rows = <<>> THEN monthsData
    ELSE FoldMonths(AddToMonth(monthsData, Head(rows), west),
                    Tail(rows), west)

ProcessMonthlyData(rows, now, west) ==
    FoldMonths(MonthsWindow(now), rows, west)

(***************************************************************************)
(* processCategoryData                                                     *)
(***************************************************************************)
\* a transaction whose category join is null
Null == [null |-> TRUE]

DefaultColor == "#3B82F6"

\* (mutant) the type test dropped
IsCategorisedExpense_AnyType(t) == t.category # Null

\* the filter `t.type === 'expense' && t.category`
IsCategorisedExpense(t) == t.type = "expense" /\ t.category # Null

\* (mutant) every transaction of a name sets the bucket's color again
AddToCategory_LastColor(categoryMap, transaction) ==
    LET categoryName  == transaction.category.name
        categoryColor == IF transaction.category.color = "" THEN DefaultColor
                         ELSE transaction.category.color
        withKey == IF KeyIndex(categoryMap, categoryName) = 0
                   THEN Append(categoryMap, [name  |-> categoryName, value |-> 0,
                                             color |-> categoryColor])
                   ELSE categoryMap
        k == KeyIndex(withKey, categoryName)
    IN  [withKey EXCEPT ![k].value = FAdd(@, transaction.amount),
                        ![k].color = categoryColor]

AddToCategory(categoryMap, transaction) ==
    LET categoryName  == transaction.category.name
        categoryColor == IF transaction.category.color = "" THEN DefaultColor
                         ELSE transaction.category.color
        withKey == IF KeyIndex(categoryMap, categoryName) = 0
                   THEN Append(categoryMap, [name  |-> categoryName, value |-> 0,
                                             color |-> categoryColor])
                   ELSE categoryMap
        k == KeyIndex(withKey, categoryName)
    IN  [withKey EXCEPT ![k].value = FAdd(@, transaction.amount)]

RECURSIVE FoldCategories(_, _)
FoldCategories(categoryMap, rows) ==
    IF rows = <<>> THEN categoryMap
    ELSE FoldCategories(AddToCategory(categoryMap, Head(rows)),
                        Tail(rows))

\* (mutant) the map of the previous load is kept and added to
ProcessCategoryData_Keep(rows) ==
    FoldCategories(categoryData, SelectSeq(rows, IsCategorisedExpense))

ProcessCategoryData(rows) ==
    FoldCategories(<<>>, SelectSeq(rows, IsCategorisedExpense))

(***************************************************************************)
(* calculateStats                                                          *)
(***************************************************************************)
RECURSIVE ReduceAmounts(_, _)
\* transactions.reduce((sum, t) => sum + Number(t.amount), sum)
ReduceAmounts(sum, rows) ==
    IF rows = <<>> THEN sum
    ELSE ReduceAmounts(FAdd(sum, Head(rows).amount), Tail(rows))

IsIncome(t) == t.type = "income"

IsExpense(t) == t.type = "expense"

\* (mutant) the operands swapped
NetBalance_Swapped(totalIncome, totalExpense) == FSub(totalExpense, totalIncome)

NetBalance(totalIncome, totalExpense) == FSub(totalIncome, totalExpense)

CalculateStats(rows) ==
    LET totalIncome  == ReduceAmounts(0, SelectSeq(rows, IsIncome))
        totalExpense == ReduceAmounts(0, SelectSeq(rows, IsExpense))
    IN  [totalIncome  |-> totalIncome,
         totalExpense |-> totalExpense,
         netBalance   |-> NetBalance(totalIncome, totalExpense)]

(***************************************************************************)
(* The transaction lists, dates and clocks the report is checked on.       *)
(***************************************************************************)
Todays == {MkDate(2024, 3, 31), MkDate(2024, 1, 15),
           MkDate(2024, 12, 31), MkDate(2024, 7, 31)}

TxDates == {MkDate(2023, 7, 20), MkDate(2023, 10, 1), MkDate(2023, 12, 15),
            MkDate(2024, 3, 1), MkDate(2024, 3, 20)}

Amounts == {1, 8}

ReportCategories == {Null,
                     [name |-> "Food", color |-> "#EF4444"],
                     [name |-> "Food", color |-> ""],
                     [name |-> "Rent", color |-> "#10B981"]}

DayNumber(date) == (date.y * 12 + (date.m - 1)) * 31 + (date.d - 1)

\* `.order('date', { ascending: true })`
SortedByDate(s) ==
    \A k \in 1..(Len(s) - 1) : DayNumber(s[k].date) <= DayNumber(s[k + 1].date)

\* lists that vary in date (no category) and lists that vary in category
DatedTx == [type : {"income", "expense"}, amount : Amounts,
            date : TxDates, category : {Null}]

CategorisedTx == [type : {"income", "expense"}, amount : Amounts,
                  date : {MkDate(2024, 3, 20)}, category : ReportCategories]

TxLists(S) == UNION {[1..n -> S] : n \in 0..MaxTx}

(***************************************************************************)
(* The Reports page.                                                       *)
(***************************************************************************)
ZeroStats == [totalIncome |-> 0, totalExpense |-> 0, netBalance |-> 0]

\* the state of the pages that are not mounted
EditorsUnmounted ==
    /\ storeWallets = {}
    /\ storeTransactions = {}
    /\ nextId = 1
    /\ wallets = {}
    /\ transactions = {}
    /\ categories = {}
    /\ isModalOpen = FALSE
    /\ editing = Null
    /\ formData = Null
    /\ isSaving = FALSE
    /\ ops = <<>>
    /\ started = 0
    /\ confirmAnswer = "none"

\* Settings is not mounted
SettingsUnmounted ==
    /\ passwords = Null
    /\ message = Null
    /\ authRequests = <<>>

\* the assistant has not been used
AssistantUnused ==
    /\ user = Null
    /\ messages = <<>>
    /\ input = ""
    /\ isLoading = FALSE
    /\ handler = Null
    /\ chatInserts = <<>>

ReportInit ==
    /\ page = "reports"
    /\ EditorsUnmounted
    /\ SettingsUnmounted
    /\ AssistantUnused
    /\ pending = TRUE
    /\ fetched = Null
    /\ loads = 0
    /\ \/ /\ today \in Todays
          /\ tzWest \in BOOLEAN
          /\ txs \in {s \in TxLists(DatedTx) : SortedByDate(s)}
       \/ /\ today = MkDate(2024, 3, 31)
          /\ tzWest = FALSE
          /\ txs \in TxLists(CategorisedTx)
    /\ loading = TRUE
    /\ monthlyData = <<>>
    /\ categoryData = <<>>
    /\ stats = ZeroStats
    /\ lastFetch = "none"

\* fetchReportData: the store answers with the rows
FetchReportData_Data ==
    /\ page = "reports"
    /\ pending
    /\ monthlyData' = ProcessMonthlyData(txs, today, tzWest)
    /\ categoryData' = ProcessCategoryData(txs)
    /\ stats' = CalculateStats(txs)
    /\ loading' = FALSE
    /\ lastFetch' = "data"
    /\ pending' = FALSE
    /\ fetched' = [rows |-> txs]
    /\ UNCHANGED <<page, settingsVars, assistantVars, today, tzWest, txs,
                   loads, storeVars, editorVars>>

\* fetchReportData: the store answers { data: null, error }
FetchReportData_Null ==
    /\ page = "reports"
    /\ pending
    /\ loading' = FALSE
    /\ lastFetch' = "null"
    /\ pending' = FALSE
    /\ UNCHANGED <<page, settingsVars, assistantVars, today, tzWest, txs,
                   monthlyData, categoryData, stats, fetched, loads,
                   storeVars, editorVars>>

\* fetchReportData: the request throws; caught and logged
FetchReportData_Throw ==
    /\ page = "reports"
    /\ pending
    /\ loading' = FALSE
    /\ lastFetch' = "throw"
    /\ pending' = FALSE
    /\ UNCHANGED <<page, settingsVars, assistantVars, today, tzWest, txs,
                   monthlyData, categoryData, stats, fetched, loads,
                   storeVars, editorVars>>

ReportNext ==
    \/ FetchReportData_Data
    \/ FetchReportData_Null
    \/ FetchReportData_Throw

ReportSpec == ReportInit /\ [][ReportNext]_vars

(***************************************************************************)
(* The Reports page over several loads.  `useEffect(..., [user])` calls    *)
(* fetchReportData again whenever the auth context hands the page a new    *)
(* user object; the page stays rendered meanwhile (loading is only ever    *)
(* set to false).  Between loads the store's rows can change.              *)
(***************************************************************************)
ReloadTx ==
    {[type |-> "income", amount |-> 1, date |-> MkDate(2023, 12, 15),
      category |-> Null],
     [type |-> "expense", amount |-> 8, date |-> MkDate(2024, 3, 1),
      category |-> [name |-> "Food", color |-> "#EF4444"]],
     [type |-> "expense", amount |-> 1, date |-> MkDate(2024, 3, 20),
      category |-> [name |-> "Rent", color |-> "#10B981"]]}

ReloadLists == {s \in TxLists(ReloadTx) : SortedByDate(s)}

ReloadInit ==
    /\ page = "reports"
    /\ EditorsUnmounted
    /\ SettingsUnmounted
    /\ AssistantUnused
    /\ today = MkDate(2024, 3, 31)
    /\ tzWest \in BOOLEAN
    /\ txs \in ReloadLists
    /\ loading = TRUE
    /\ monthlyData = <<>>
    /\ categoryData = <<>>
    /\ stats = ZeroStats
    /\ lastFetch = "none"
    /\ pending = TRUE
    /\ fetched = Null
    /\ loads = 0

\* the effect runs again: `if (user) fetchReportData()`
EffectRuns ==
    /\ page = "reports"
    /\ ~pending
    /\ loads < MaxLoads
    /\ pending' = TRUE
    /\ loads' = loads + 1
    /\ UNCHANGED <<page, settingsVars, assistantVars, loading, today, tzWest,
                   txs, monthlyData, categoryData, stats, lastFetch, fetched,
                   storeVars, editorVars>>

\* rows are added to, removed from or changed in the table between loads
StoreChanges ==
    /\ page = "reports"
    /\ ~pending
    /\ loads < MaxLoads
    /\ txs' \in ReloadLists \ {txs}
    /\ UNCHANGED <<page, settingsVars, assistantVars, loading, today, tzWest,
                   monthlyData, categoryData, stats, lastFetch, pending,
                   fetched, loads, storeVars, editorVars>>

ReloadNext ==
    \/ ReportNext
    \/ EffectRuns
    \/ StoreChanges

ReloadSpec == ReloadInit /\ [][ReloadNext]_vars

(***************************************************************************)
(* Reference definitions used by the properties of the report.             *)
(***************************************************************************)
RECURSIVE SumTo(_, _)
\* amounts(1) + ... + amounts(n) in JS arithmetic, left to right from 0
SumTo(amounts, n) ==
    IF n = 0 THEN 0 ELSE FAdd(SumTo(amounts, n - 1), amounts[n])

RECURSIVE ExactSumTo(_, _)
\* the same sum in exact arithmetic
ExactSumTo(amounts, n) ==
    IF n = 0 THEN 0 ELSE ExactSumTo(amounts, n - 1) + amounts[n]

\* the amounts of the transactions of s that satisfy Keep(_), 0 for the others
AmountsWhere(s, Keep(_)) == [k \in 1..Len(s) |-> IF Keep(s[k]) THEN s[k].amount ELSE 0]

SumWhere(s, Keep(_)) == SumTo(AmountsWhere(s, Keep), Len(s))

ExactSumWhere(s, Keep(_)) == ExactSumTo(AmountsWhere(s, Keep), Len(s))

MonthIndex(date) == date.y * 12 + (date.m - 1)

LabelOfIndex(idx) == <<MonthName[(idx % 12) + 1], idx \div 12>>

\* the calendar month of a date lies in the 6 months ending with now's month
InWindow(date, now) ==
    /\ MonthIndex(date) <= MonthIndex(now)
    /\ MonthIndex(date) >= MonthIndex(now) - 5

ReportLoaded == lastFetch = "data"

(***************************************************************************)
(* C1.  For every transaction list handed to calculateStats, the empty     *)
(* list included, netBalance is totalIncome minus totalExpense, where      *)
(* totalIncome is the sum of the amounts of the income transactions and    *)
(* totalExpense the sum of the amounts of the expense transactions; for    *)
(* the empty list all three are 0.                                         *)
(***************************************************************************)
C1_NetIsIncomeMinusExpense ==
    ReportLoaded =>
        /\ stats.totalIncome = SumWhere(txs, LAMBDA t : t.type = "income")
        /\ stats.totalExpense = SumWhere(txs, LAMBDA t : t.type = "expense")
        /\ stats.netBalance = FSub(stats.totalIncome, stats.totalExpense)
        /\ (txs = <<>> => stats = ZeroStats)

C1_Witness ==
    /\ ReportLoaded
    /\ stats.totalIncome > 0
    /\ stats.totalExpense > stats.totalIncome
    /\ stats.netBalance < 0

(***************************************************************************)
(* C2.  When every transaction's date lies inside the 6-month window, the  *)
(* income of the 6 monthly buckets sums to calculateStats' totalIncome,    *)
(* and the expense of the buckets to totalExpense.  Stated for the lists   *)
(* whose sums no addition rounds (the exact total is at most               *)
(* 2^MantissaBits): there the two sums are the exact sums.                 *)
(***************************************************************************)
C2_BucketsSumToTotals ==
    (/\ ReportLoaded
     /\ \A k \in 1..Len(txs) : InWindow(txs[k].date, today)
     /\ ExactSumWhere(txs, LAMBDA t : TRUE) <= Pow2(MantissaBits)) =>
        /\ SumTo([k \in 1..Len(monthlyData) |-> monthlyData[k].income],
                 Len(monthlyData)) = stats.totalIncome
        /\ SumTo([k \in 1..Len(monthlyData) |-> monthlyData[k].expense],
                 Len(monthlyData)) = stats.totalExpense

(***************************************************************************)
(* C3.  For every current date (last days of a month and windows that      *)
(* cross a year boundary included) processMonthlyData yields exactly 6     *)
(* buckets: the 6 consecutive calendar months ending with the current      *)
(* month, none repeated or skipped, oldest first.                          *)
(***************************************************************************)
C3_SixConsecutiveMonths ==
    ReportLoaded =>
        /\ Len(monthlyData) = 6
        /\ \A k \in 1..6 :
              monthlyData[k].name = LabelOfIndex(MonthIndex(today) - (6 - k))

C3_Witness ==
    /\ ReportLoaded
    /\ today = MkDate(2024, 3, 31)
    /\ monthlyData[1].name = <<"Oct", 2023>>
    /\ monthlyData[5].name = <<"Feb", 2024>>
    /\ monthlyData[6].name = <<"Mar", 2024>>

(***************************************************************************)
(* C4.  Each transaction adds its amount to exactly the bucket of the      *)
(* calendar month of its date when that month is inside the window         *)
(* (income to the income sum, expense to the expense sum) and to no bucket *)
(* when it is outside: every bucket holds the sum of the transactions of   *)
(* its own month.                                                          *)
(***************************************************************************)
C4_BucketHoldsItsMonth ==
    ReportLoaded =>
        \A k \in 1..Len(monthlyData) :
            /\ monthlyData[k].income =
                  SumWhere(txs, LAMBDA t : t.type = "income"
                      /\ LabelOfIndex(MonthIndex(t.date)) = monthlyData[k].name)
            /\ monthlyData[k].expense =
                  SumWhere(txs, LAMBDA t : t.type = "expense"
                      /\ LabelOfIndex(MonthIndex(t.date)) = monthlyData[k].name)

(***************************************************************************)
(* C5.  Income transactions and transactions without a category add       *)
(* nothing to any category bucket: the values of all category buckets sum  *)
(* to the sum of the amounts of the expense transactions that carry a      *)
(* category.                                                               *)
(***************************************************************************)
CategorisedExpense(t) == t.type = "expense" /\ t.category # Null

\* the claim as stated: the two sums are equal numbers
C5_BucketsSumToCategorisedExpenses ==
    ReportLoaded =>
        SumTo([k \in 1..Len(categoryData) |-> categoryData[k].value],
              Len(categoryData)) = SumWhere(txs, CategorisedExpense)

\* the claim as amended: there is one bucket per category name carried by
\* an expense transaction, it holds the sum (in list order) of the amounts
\* of the expense transactions carrying that name and of nothing else, and
\* the buckets sum to the sum of those amounts whenever no addition rounds
\* (the exact sum is at most 2^MantissaBits)
C5_OnlyCategorisedExpensesCount ==
    ReportLoaded =>
        /\ {categoryData[k].name : k \in 1..Len(categoryData)} =
              {txs[i].category.name :
                  i \in {j \in 1..Len(txs) : CategorisedExpense(txs[j])}}
        /\ \A k \in 1..Len(categoryData) :
              categoryData[k].value =
                  SumWhere(txs, LAMBDA t : CategorisedExpense(t)
                                   /\ t.category.name = categoryData[k].name)
        /\ \A k, l \in 1..Len(categoryData) :
              categoryData[k].name = categoryData[l].name => k = l
        /\ (ExactSumWhere(txs, CategorisedExpense) <= Pow2(MantissaBits) =>
               SumTo([k \in 1..Len(categoryData) |-> categoryData[k].value],
                     Len(categoryData)) = ExactSumWhere(txs, CategorisedExpense))

C5_Witness ==
    /\ ReportLoaded
    /\ \E i \in 1..Len(txs) : txs[i].type = "income" /\ txs[i].category # Null
    /\ \E i \in 1..Len(txs) : txs[i].type = "expense" /\ txs[i].category = Null
    /\ Len(categoryData) = 1
    /\ categoryData[1].value = 8

(***************************************************************************)
(* The remote store behind the Wallets and Transactions pages.             *)
(* A supabase-js request resolves to { data, error } (the store applied    *)
(* it, or refused it and reports an error) or rejects (throws).            *)
(***************************************************************************)
UserId == "u1"

NullId == "null"

WalletDefaults == [balance |-> 0]

StoreCategories ==
    {[id |-> "c1", name |-> "Food",   type |-> "expense"],
     [id |-> "c2", name |-> "Salary", type |-> "income"]}

InitialWallets ==
    {[id |-> 1, user_id |-> UserId, name |-> "Cash", balance |-> 100,
      type |-> "personal", color |-> "#3B82F6", currency |-> "BRL"],
     [id |-> 2, user_id |-> UserId, name |-> "Bank", balance |-> 50,
      type |-> "business", color |-> "#10B981", currency |-> "BRL"]}

InitialTransactions ==
    {[id |-> 1, user_id |-> UserId, type |-> "expense", amount |-> 5,
      category_id |-> "c1"],
     [id |-> 2, user_id |-> UserId, type |-> "income", amount |-> 7,
      category_id |-> NullId]}

Ids(rows) == {r.id : r \in rows}

\* the columns named in values replaced, the others kept
Override(row, values) ==
    [f \in DOMAIN row |-> IF f \in DOMAIN values THEN values[f] ELSE row[f]]

\* .update(values).eq('id', id)
UpdateRows(rows, id, values) ==
    {IF r.id = id THEN Override(r, values) ELSE r : r \in rows}

\* .insert([values]): a new row with a fresh id and the column defaults
InsertRow(rows, id, defaults, values) ==
    rows \cup {[f \in {"id"} \cup DOMAIN defaults \cup DOMAIN values |->
                   IF f = "id" THEN id
                   ELSE IF f \in DOMAIN values THEN values[f] ELSE defaults[f]]}

\* (mutant) the filter on id lost: every row is deleted
DeleteRows_All(rows, id) == {}

\* .delete().eq('id', id)
DeleteRows(rows, id) == {r \in rows : r.id # id}

ApplyRequest(rows, req, id, defaults) ==
    IF req.op = "update" THEN UpdateRows(rows, req.id, req.values)
    ELSE IF req.op = "insert" THEN InsertRow(rows, id, defaults, req.values)
    ELSE DeleteRows(rows, req.id)

\* .select('id, name')
WalletNames(rows) == {[id |-> r.id, name |-> r.name] : r \in rows}

(***************************************************************************)
(* Handler invocations suspended at an await.  pc says which await:        *)
(*   mutate  - the update / insert / delete request is with the store      *)
(*   select  - the list query of fetchWallets / fetchData is with the store*)
(*   deliver - the store has answered the list query (snap), the handler   *)
(*             has not resumed yet                                         *)
(***************************************************************************)
Slots == 1..MaxOps

Idle == [kind |-> "idle"]

Thrown == [thrown |-> TRUE]

HasFreeSlot == \E s \in Slots : ops[s] = Idle

FreeSlot == CHOOSE s \in Slots : ops[s] = Idle /\ \A t \in 1..(s - 1) : ops[t] # Idle

NewOp(kind, pc, req) ==
    [kind |-> kind, pc |-> pc, req |-> req, mres |-> "none", snap |-> Null]

(***************************************************************************)
(* Forms.                                                                  *)
(***************************************************************************)
WalletNamesTyped == {"Trip"}

AmountsTyped == {"5"}

\* parseFloat(formData.amount) on the texts the model types
ParseFloat(text) == IF text = "5" THEN 5 ELSE IF text = "7" THEN 7 ELSE 0

NewWalletForm ==
    [name |-> "", type |-> "personal", color |-> "#3B82F6", currency |-> "BRL"]

\* (mutant) the form also carries the balance column
WalletForm_WithBalance(wallet) ==
    [name |-> wallet.name, type |-> wallet.type,
     color |-> wallet.color, currency |-> wallet.currency, balance |-> 0]

\* openModal(wallet): the four editable fields copied from the wallet
WalletForm(wallet) ==
    [name |-> wallet.name, type |-> wallet.type,
     color |-> wallet.color, currency |-> wallet.currency]

\* description, date and wallet_id are required fields carried like amount
\* from the form into the request; they are not modelled
NewTransactionForm == [type |-> "expense", amount |-> "", category_id |-> ""]

\* (mutant) the filter on type lost
AvailableCategories_All == categories

\* const availableCategories = categories.filter((c) => c.type === formData.type)
AvailableCategories == {c \in categories : c.type = formData.type}

(***************************************************************************)
(* Mount: useEffect runs fetchWallets() / fetchData().                     *)
(***************************************************************************)
ReportsUnmounted ==
    /\ pending = FALSE
    /\ fetched = Null
    /\ loads = 0
    /\ today = MkDate(2024, 3, 31)
    /\ tzWest = FALSE
    /\ txs = <<>>
    /\ monthlyData = <<>>
    /\ categoryData = <<>>
    /\ stats = ZeroStats
    /\ lastFetch = "none"

EditorInit ==
    /\ page \in {"wallets", "transactions"}
    /\ ReportsUnmounted
    /\ SettingsUnmounted
    /\ AssistantUnused
    /\ storeWallets = InitialWallets
    /\ storeTransactions = InitialTransactions
    /\ nextId = 3
    /\ loading = TRUE
    /\ wallets = {}
    /\ transactions = {}
    /\ categories = {}
    /\ isModalOpen = FALSE
    /\ editing = Null
    /\ formData = IF page = "wallets" THEN NewWalletForm ELSE NewTransactionForm
    /\ isSaving = FALSE
    /\ ops = [s \in Slots |-> IF s = 1 THEN NewOp("load", "select", Null) ELSE Idle]
    /\ started = 0
    /\ confirmAnswer = "none"

(***************************************************************************)
(* User actions on the rendered page (the page renders once loading is     *)
(* false).                                                                 *)
(***************************************************************************)
\* Wallets.openModal(), Transactions.openModal()
OpenModalNew ==
    /\ ~loading
    /\ editing' = Null
    /\ \/ /\ page = "wallets"
          /\ formData' = NewWalletForm
       \/ /\ page = "transactions"
          /\ formData' = NewTransactionForm
    /\ isModalOpen' = TRUE
    /\ UNCHANGED <<page, settingsVars, assistantVars, loading, reportVars, storeVars, wallets, transactions,
                   categories, isSaving, ops, started, confirmAnswer>>

\* Wallets.openModal(wallet)
OpenModalEdit(wallet) ==
    /\ ~loading
    /\ page = "wallets"
    /\ editing' = wallet
    /\ formData' = WalletForm(wallet)
    /\ isModalOpen' = TRUE
    /\ UNCHANGED <<page, settingsVars, assistantVars, loading, reportVars, storeVars, wallets, transactions,
                   categories, isSaving, ops, started, confirmAnswer>>

\* closeModal (the X and Cancel buttons)
CloseModal ==
    /\ ~loading
    /\ isModalOpen
    /\ isModalOpen' = FALSE
    /\ editing' = Null
    /\ UNCHANGED <<page, settingsVars, assistantVars, loading, reportVars, storeVars, wallets, transactions,
                   categories, formData, isSaving, ops, started, confirmAnswer>>

\* setFormData({ ...formData, [field]: value }) of the text inputs and selects
\* (the type and colour buttons of the wallet form do the same and are not
\* exercised)
SetField(field, value) ==
    /\ ~loading
    /\ isModalOpen
    /\ formData' = [formData EXCEPT ![field] = value]
    /\ UNCHANGED <<page, settingsVars, assistantVars, loading, reportVars, storeVars, wallets, transactions,
                   categories, isModalOpen, editing, isSaving, ops, started, confirmAnswer>>

WalletSetField ==
    /\ page = "wallets"
    /\ \E n \in WalletNamesTyped : SetField("name", n)

TransactionSetField ==
    /\ page = "transactions"
    /\ \/ \E a \in AmountsTyped : SetField("amount", a)
       \/ \E c \in {""} \cup Ids(AvailableCategories) : SetField("category_id", c)

\* (mutant) the type button leaves the selected category in place
SetType_KeepCategory(type) ==
    /\ ~loading
    /\ page = "transactions"
    /\ isModalOpen
    /\ formData' = [formData EXCEPT !.type = type]
    /\ UNCHANGED <<page, settingsVars, assistantVars, loading, reportVars,
                   storeVars, wallets, transactions, categories, isModalOpen,
                   editing, isSaving, ops, started, confirmAnswer>>

\* the Income / Expense buttons of the transaction form
SetType(type) ==
    /\ ~loading
    /\ page = "transactions"
    /\ isModalOpen
    /\ formData' = [formData EXCEPT !.type = type, !.category_id = ""]
    /\ UNCHANGED <<page, settingsVars, assistantVars, loading, reportVars, storeVars, wallets, transactions,
                   categories, isModalOpen, editing, isSaving, ops, started, confirmAnswer>>

\* the `required` inputs of the form are filled in
FormValid ==
    IF page = "wallets" THEN formData.name # ""
    ELSE formData.amount # ""

\* the request handleSubmit builds from the form
SubmitRequest ==
    LET values ==
          IF page = "wallets"
          THEN formData
          ELSE [type |-> formData.type,
                amount |-> ParseFloat(formData.amount),
                user_id |-> UserId,
                category_id |-> IF formData.category_id = "" THEN NullId
                                ELSE formData.category_id]
    IN  IF editing # Null
        THEN [op |-> "update", id |-> editing.id, values |-> values]
        ELSE IF page = "wallets"
             THEN [op |-> "insert",
                   values |-> [name |-> formData.name, type |-> formData.type,
                               color |-> formData.color,
                               currency |-> formData.currency,
                               user_id |-> UserId]]
             ELSE [op |-> "insert", values |-> values]

\* handleSubmit up to its first await
HandleSubmit ==
    /\ ~loading
    /\ isModalOpen
    /\ FormValid
    /\ HasFreeSlot
    /\ started < MaxHandlers
    /\ isSaving' = TRUE
    /\ ops' = [ops EXCEPT ![FreeSlot] = NewOp("submit", "mutate", SubmitRequest)]
    /\ started' = started + 1
    /\ UNCHANGED <<page, settingsVars, assistantVars, loading, reportVars, storeVars, wallets, transactions,
                   categories, isModalOpen, editing, formData, confirmAnswer>>

\* (mutant) the confirmation's answer ignored
DeleteProceeds_Always(answer) == TRUE

\* `if (!confirm(...)) return;`
DeleteProceeds(answer) == answer = "yes"

\* handleDelete(id) up to its first await; answer is what confirm() returns
HandleDelete(id, answer) ==
    /\ ~loading
    /\ confirmAnswer' = answer
    /\ IF DeleteProceeds(answer)
       THEN /\ HasFreeSlot
            /\ started < MaxHandlers
            /\ ops' = [ops EXCEPT ![FreeSlot] =
                        NewOp("delete", "mutate", [op |-> "delete", id |-> id])]
            /\ started' = started + 1
       ELSE UNCHANGED <<ops, started>>
    /\ UNCHANGED <<page, settingsVars, assistantVars, loading, reportVars, storeVars, wallets, transactions,
                   categories, isModalOpen, editing, formData, isSaving>>

DeleteClicked ==
    \E answer \in {"yes", "no"} :
        \/ /\ page = "wallets"
           /\ \E w \in wallets : HandleDelete(w.id, answer)
        \/ /\ page = "transactions"
           /\ \E t \in transactions : HandleDelete(t.id, answer)

(***************************************************************************)
(* The store answers; the suspended handlers resume.                       *)
(***************************************************************************)
\* the store applies the request and answers without error; the handler
\* goes on to `await fetchWallets()` / `await fetchData()`
MutationApplied(s) ==
    /\ ops[s].kind \in {"submit", "delete"}
    /\ ops[s].pc = "mutate"
    /\ ops[s].req.op = "insert" => nextId <= MaxRows
    /\ IF page = "wallets"
       THEN /\ storeWallets' =
                  ApplyRequest(storeWallets, ops[s].req, nextId, WalletDefaults)
            /\ UNCHANGED storeTransactions
       ELSE /\ storeTransactions' =
                  ApplyRequest(storeTransactions, ops[s].req, nextId, <<>>)
            /\ UNCHANGED storeWallets
    /\ nextId' = IF ops[s].req.op = "insert" THEN nextId + 1 ELSE nextId
    /\ ops' = [ops EXCEPT ![s].pc = "select", ![s].mres = "ok"]
    /\ UNCHANGED <<page, settingsVars, assistantVars, loading, reportVars, wallets, transactions, categories,
                   isModalOpen, editing, formData, isSaving, started,
                   confirmAnswer>>

\* the store refuses the request: the promise resolves to { data: null,
\* error }; the handlers do not read `error` and go on to the fetch
MutationRefused(s) ==
    /\ ops[s].kind \in {"submit", "delete"}
    /\ ops[s].pc = "mutate"
    /\ ops' = [ops EXCEPT ![s].pc = "select", ![s].mres = "error"]
    /\ UNCHANGED <<page, settingsVars, assistantVars, loading, reportVars, storeVars, wallets, transactions,
                   categories, isModalOpen, editing, formData, isSaving,
                   started, confirmAnswer>>

\* (mutant) the handler ends in catch without running finally
MutationThrows_NoFinally(s) ==
    /\ ops[s].kind \in {"submit", "delete"}
    /\ ops[s].pc = "mutate"
    /\ ops' = [ops EXCEPT ![s] = Idle]
    /\ UNCHANGED <<page, settingsVars, assistantVars, loading, reportVars, storeVars, wallets, transactions,
                   categories, isModalOpen, editing, formData, isSaving,
                   started, confirmAnswer>>

\* the request rejects: catch logs it, and handleSubmit's finally runs
MutationThrows(s) ==
    /\ ops[s].kind \in {"submit", "delete"}
    /\ ops[s].pc = "mutate"
    /\ isSaving' = IF ops[s].kind = "submit" THEN FALSE ELSE isSaving
    /\ ops' = [ops EXCEPT ![s] = Idle]
    /\ UNCHANGED <<page, settingsVars, assistantVars, loading, reportVars, storeVars, wallets, transactions,
                   categories, isModalOpen, editing, formData, started,
                   confirmAnswer>>

\* the rows the list query of the page reads when the store runs it now:
\* fetchWallets has one query, fetchData three joined by Promise.all
SelectRows ==
    IF page = "wallets"
    THEN [wallets |-> storeWallets]
    ELSE [transactions |-> storeTransactions,
          wallets      |-> WalletNames(storeWallets),
          categories   |-> StoreCategories]

\* the store runs the list query of fetchWallets / fetchData
SelectExecutes(s) ==
    /\ ops[s].kind # "idle"
    /\ ops[s].pc = "select"
    /\ ops' = [ops EXCEPT ![s].pc = "deliver", ![s].snap = SelectRows]
    /\ UNCHANGED <<page, settingsVars, assistantVars, loading, reportVars, storeVars, wallets, transactions,
                   categories, isModalOpen, editing, formData, isSaving,
                   started, confirmAnswer>>

\* how the awaited list query ends: it rejects (Thrown), or every query of
\* it resolves, those in `failed` to { data: null, error }
SelectOutcomes(snap) == {Thrown} \cup {[failed |-> f] : f \in SUBSET DOMAIN snap}

\* (mutant) the lists that were answered are set although the joined wait
\* rejected
Received_Partial(snap, outcome, list, current) ==
    IF list \notin DOMAIN snap THEN current
    ELSE IF outcome # Thrown /\ list \in outcome.failed THEN current
    ELSE snap[list]

\* `if (x.data) setX(x.data)` for list x of the answer
Received(snap, outcome, list, current) ==
    IF outcome = Thrown THEN current
    ELSE IF list \notin DOMAIN snap THEN current
    ELSE IF list \in outcome.failed THEN current
    ELSE snap[list]

\* fetchWallets / fetchData resumes with the answer and returns, and the
\* handler that awaited it runs to its end
FetchResumes(s, outcome) ==
    /\ ops[s].kind # "idle"
    /\ ops[s].pc = "deliver"
    /\ wallets' = Received(ops[s].snap, outcome, "wallets", wallets)
    /\ transactions' = Received(ops[s].snap, outcome, "transactions", transactions)
    /\ categories' = Received(ops[s].snap, outcome, "categories", categories)
    /\ loading' = FALSE
    /\ IF ops[s].kind = "submit"
       THEN \* closeModal(); finally setIsSaving(false)
            /\ isModalOpen' = FALSE
            /\ editing' = Null
            /\ isSaving' = FALSE
       ELSE UNCHANGED <<isModalOpen, editing, isSaving>>
    /\ ops' = [ops EXCEPT ![s] = Idle]
    /\ UNCHANGED <<page, settingsVars, assistantVars, storeVars, formData,
                   started, confirmAnswer>>

FetchReturns(s, outcome) == FetchResumes(s, outcome) /\ UNCHANGED reportVars

Next ==
    \/ OpenModalNew
    \/ \E w \in wallets : OpenModalEdit(w)
    \/ CloseModal
    \/ WalletSetField
    \/ TransactionSetField
    \/ \E type \in {"income", "expense"} : SetType(type)
    \/ HandleSubmit
    \/ DeleteClicked
    \/ \E s \in Slots : MutationApplied(s)
    \/ \E s \in Slots : MutationRefused(s)
    \/ \E s \in Slots : MutationThrows(s)
    \/ \E s \in Slots : SelectExecutes(s)
    \/ \E s \in Slots :
          /\ ops[s].kind # "idle"
          /\ \E outcome \in SelectOutcomes(ops[s].snap) : FetchReturns(s, outcome)

Spec == EditorInit /\ [][Next]_vars

(***************************************************************************)
(* Text.  A JS string is modelled by a TLA+ string; SubSeq(s, i, i) is its *)
(* i-th character.                                                         *)
(***************************************************************************)
UpperCase == "ABCDEFGHIJKLMNOPQRSTUVWXYZ"

LowerCase == "abcdefghijklmnopqrstuvwxyz"

CharAt(s, i) == SubSeq(s, i, i)

\* the lower-case forms of the characters that have one (here A-Z)
LowerMap ==
    [c \in {CharAt(UpperCase, i) : i \in 1..Len(UpperCase)} |->
        CharAt(LowerCase, CHOOSE i \in 1..Len(UpperCase) : CharAt(UpperCase, i) = c)]

LowerOf(c) == IF c \in DOMAIN LowerMap THEN LowerMap[c] ELSE c

RECURSIVE ToLowerCase(_)
\* String.prototype.toLowerCase
ToLowerCase(s) ==
    IF s = "" THEN ""
    ELSE LowerOf(CharAt(s, 1)) \o ToLowerCase(SubSeq(s, 2, Len(s)))

\* String.prototype.includes: k occurs in s as a run of consecutive characters
Includes(s, k) ==
    \E i \in 1..(Len(s) - Len(k) + 1) : SubSeq(s, i, i + Len(k) - 1) = k

IsWhiteSpace(c) == c \in {" ", "\t", "\n"}

RECURSIVE TrimStart(_)
TrimStart(s) ==
    IF s # "" /\ IsWhiteSpace(CharAt(s, 1))
    THEN TrimStart(SubSeq(s, 2, Len(s)))
    ELSE s

RECURSIVE TrimEnd(_)
TrimEnd(s) ==
    IF s # "" /\ IsWhiteSpace(CharAt(s, Len(s)))
    THEN TrimEnd(SubSeq(s, 1, Len(s) - 1))
    ELSE s

\* String.prototype.trim
Trim(s) == TrimEnd(TrimStart(s))

DigitChars == "0123456789"

RECURSIVE Digits(_)
\* the decimal digits of a natural number
Digits(n) ==
    IF n < 10 THEN CharAt(DigitChars, n + 1)
    ELSE Digits(n \div 10) \o CharAt(DigitChars, (n % 10) + 1)

RECURSIVE Grouped(_)
\* the digits in groups of three separated by '.', as the pt-BR locale does
Grouped(n) ==
    IF n < 1000 THEN Digits(n)
    ELSE Grouped(n \div 1000) \o "."
         \o (IF n % 1000 < 10 THEN "00" ELSE IF n % 1000 < 100 THEN "0" ELSE "")
         \o Digits(n % 1000)

\* n.toLocaleString('pt-BR', { minimumFractionDigits: 2 }) for an integer n
FormatBRL(n) ==
    IF n < 0 THEN "-" \o Grouped(0 - n) \o ",00" ELSE Grouped(n) \o ",00"

\* ((savings / income) * 100).toFixed(1): the nearest tenth
ToFixed1(savings, income) ==
    LET mag    == IF savings < 0 THEN 0 - savings ELSE savings
        tenths == (2000 * mag + income) \div (2 * income)
    IN  (IF savings < 0 THEN "-" ELSE "")
        \o Digits(tenths \div 10) \o "." \o Digits(tenths % 10)

(***************************************************************************)
(* The chat assistant: getFinancialContext and generateAIResponse.         *)
(* Here the store's tables are the row lists the two selects answer with.  *)
(***************************************************************************)
ChatLimit == 20

\* .limit(n)
Take(rows, n) == SubSeq(rows, 1, IF Len(rows) < n THEN Len(rows) ELSE n)

RECURSIVE ReduceBalances(_, _)
\* wallets.reduce((sum, w) => sum + Number(w.balance), sum)
ReduceBalances(sum, rows) ==
    IF rows = <<>> THEN sum
    ELSE ReduceBalances(FAdd(sum, Head(rows).balance), Tail(rows))

\* (mutant) recentIncome handed out as the total balance
ContextBalance_Income(walletRows, txRows) ==
    ReduceAmounts(0, SelectSeq(txRows, IsIncome))

ContextBalance(walletRows, txRows) == ReduceBalances(0, walletRows)

\* getFinancialContext; outcome says how the awaited Promise.all ends: it
\* rejects (Thrown), or both selects resolve, those in `failed` to
\* { data: null, error }
GetFinancialContext(outcome) ==
    IF outcome = Thrown THEN Null
    ELSE LET walletRows == IF "wallets" \in outcome.failed THEN <<>>
                           ELSE storeWallets
             txRows     == IF "transactions" \in outcome.failed THEN <<>>
                           ELSE Take(storeTransactions, ChatLimit)
         IN  [walletsCount      |-> Len(walletRows),
              totalBalance      |-> ContextBalance(walletRows, txRows),
              recentIncome      |-> ReduceAmounts(0, SelectSeq(txRows, IsIncome)),
              recentExpenses    |-> ReduceAmounts(0, SelectSeq(txRows, IsExpense)),
              transactionsCount |-> Len(txRows)]

ContextOutcomes ==
    {Thrown} \cup {[failed |-> f] : f \in SUBSET {"wallets", "transactions"}}

Greeting ==
    "Hello! I'm your financial assistant. I can help you with insights about your finances, answer questions, and provide recommendations. How can I assist you today?"

ContextApology ==
    "I apologize, but I'm having trouble accessing your financial data at the moment. Please try again later."

ErrorApology == "I apologize, but I encountered an error. Please try again."

Tips ==
    <<"Track every transaction to understand where your money goes.",
      "Create a budget and stick to it - allocate 50% to needs, 30% to wants, and 20% to savings.",
      "Build an emergency fund covering 3-6 months of expenses.",
      "Review your subscriptions and cancel unused ones.",
      "Use the envelope method - allocate specific amounts to different spending categories.">>

Plural(n) == IF n # 1 THEN "s" ELSE ""

BalanceResponse(context) ==
    "Your current total balance is R$ " \o FormatBRL(context.totalBalance)
    \o " across " \o Digits(context.walletsCount)
    \o " wallet" \o Plural(context.walletsCount) \o "."

IncomeResponse(context) ==
    "Your recent income is R$ " \o FormatBRL(context.recentIncome) \o ". "
    \o (IF context.recentIncome > context.recentExpenses
        THEN "Great job! Your income is higher than your expenses."
        ELSE "Consider increasing your income streams or reducing expenses.")

ExpenseResponse(context) ==
    "Your recent expenses total R$ " \o FormatBRL(context.recentExpenses) \o ". "
    \o (IF context.recentExpenses > context.recentIncome
        THEN "You're spending more than you're earning. Consider reviewing your budget."
        ELSE "Good job managing your expenses!")

SavingsResponse(context) ==
    LET savings == FSub(context.recentIncome, context.recentExpenses)
    IN  "Based on your recent transactions, you're saving approximately R$ "
        \o FormatBRL(savings) \o " ("
        \o (IF context.recentIncome > 0
            THEN ToFixed1(savings, context.recentIncome) ELSE "0.0")
        \o "% of income). Financial experts recommend saving at least 20% of your income."

WalletResponse(context) ==
    "You currently have " \o Digits(context.walletsCount) \o " wallet"
    \o Plural(context.walletsCount)
    \o " set up. Consider organizing your finances by creating separate wallets for different purposes like personal, business, or investments."

FallbackPrefix == "I understand you're asking about \""

\* the bullet character of the source (U+2022) is written '*'
FallbackSuffix ==
    "\". Here's what I can help you with:\n\n* Check your balance and financial overview\n* Analyze your income and expenses\n* Calculate your savings rate\n* Provide budgeting tips and advice\n* Help manage your wallets\n\nFeel free to ask me anything about your finances!"

\* (mutant) the lower-cased message echoed instead of the message
FallbackResponse_Lower(userMessage) ==
    FallbackPrefix \o ToLowerCase(userMessage) \o FallbackSuffix

FallbackResponse(userMessage) == FallbackPrefix \o userMessage \o FallbackSuffix

\* (mutant) the income test moved in front of the balance / total test
GenerateAIResponse_IncomeFirst(userMessage, context, tip) ==
    LET lowerMessage == ToLowerCase(userMessage)
    IN  IF context = Null THEN ContextApology
        ELSE IF Includes(lowerMessage, "income") THEN IncomeResponse(context)
        ELSE IF Includes(lowerMessage, "balance") \/ Includes(lowerMessage, "total")
        THEN BalanceResponse(context)
        ELSE IF Includes(lowerMessage, "expense") \/ Includes(lowerMessage, "spending")
        THEN ExpenseResponse(context)
        ELSE IF Includes(lowerMessage, "save") \/ Includes(lowerMessage, "saving")
        THEN SavingsResponse(context)
        ELSE IF Includes(lowerMessage, "wallet") THEN WalletResponse(context)
        ELSE IF \/ Includes(lowerMessage, "advice")
                \/ Includes(lowerMessage, "tip")
                \/ Includes(lowerMessage, "help")
        THEN Tips[tip]
        ELSE FallbackResponse(userMessage)

\* generateAIResponse, given the context getFinancialContext returned and
\* the index Math.random picks among the tips
GenerateAIResponse(userMessage, context, tip) ==
    LET lowerMessage == ToLowerCase(userMessage)
    IN  IF context = Null THEN ContextApology
        ELSE IF Includes(lowerMessage, "balance") \/ Includes(lowerMessage, "total")
        THEN BalanceResponse(context)
        ELSE IF Includes(lowerMessage, "income") THEN IncomeResponse(context)
        ELSE IF Includes(lowerMessage, "expense") \/ Includes(lowerMessage, "spending")
        THEN ExpenseResponse(context)
        ELSE IF Includes(lowerMessage, "save") \/ Includes(lowerMessage, "saving")
        THEN SavingsResponse(context)
        ELSE IF Includes(lowerMessage, "wallet") THEN WalletResponse(context)
        ELSE IF \/ Includes(lowerMessage, "advice")
                \/ Includes(lowerMessage, "tip")
                \/ Includes(lowerMessage, "help")
        THEN Tips[tip]
        ELSE FallbackResponse(userMessage)

(***************************************************************************)
(* The chat assistant: the component and handleSubmit.                     *)
(***************************************************************************)
\* exchanges (a submitted message and its answer) in one run
MaxExchanges == 1

\* the texts typed into the input: the keywords alone, in other letter
\* cases, in pairs in both orders, inside other words, and texts without
\* keyword, with and without white space around them
KeywordTexts ==
    {"balance", "total", "income", "expense", "spending", "save", "saving",
     "wallet", "advice", "tip", "help"}

PairWords == {"total", "income", "spending", "saving", "wallet", "help", "and"}

Inputs ==
    KeywordTexts
    \cup {"BALANCE", "My Balance?", "Total", "multiple", "Hi", "Food and Rent"}
    \cup {a \o " " \o b : a \in PairWords, b \in PairWords}
    \cup {"", "  ", " Hi ", "hi\n", " what is my balance "}

\* the rows the selects of getFinancialContext answer with
WalletSnapshots ==
    {<<>>, <<[balance |-> 4]>>, <<[balance |-> 4], [balance |-> 2]>>}

TransactionSnapshots ==
    {<<>>, <<[type |-> "income", amount |-> 8], [type |-> "expense", amount |-> 3]>>}

\* a table of ChatLimit + 1 transactions, one a day: the oldest an income of
\* 8, the newest an expense of 3, the others expenses of 1
DatedRow(k) ==
    [type   |-> IF k = 1 THEN "income" ELSE "expense",
     amount |-> IF k = 1 THEN 8 ELSE IF k = ChatLimit + 1 THEN 3 ELSE 1,
     date   |-> MkDate(2024, 1, k)]

\* the select has no `.order(...)`: the rows come in the order the database
\* picks, here the order of insertion (oldest first) or newest first
LongSnapshots ==
    {[k \in 1..(ChatLimit + 1) |-> DatedRow(k)],
     [k \in 1..(ChatLimit + 1) |-> DatedRow(ChatLimit + 2 - k)]}

\* the state of the editors while the assistant is checked, the store aside
EditorStateUnmounted ==
    /\ nextId = 1
    /\ wallets = {}
    /\ transactions = {}
    /\ categories = {}
    /\ isModalOpen = FALSE
    /\ editing = Null
    /\ formData = Null
    /\ isSaving = FALSE
    /\ ops = <<>>
    /\ started = 0
    /\ confirmAnswer = "none"

\* (mutant) message and response swapped
ChatLogRow_Swapped(userId, userMessage, aiResponse) ==
    [user_id |-> userId, message |-> aiResponse, response |-> userMessage]

\* the row handleSubmit inserts into ai_chat_logs (its `context` is {})
ChatLogRow(userId, userMessage, aiResponse) ==
    [user_id |-> userId, message |-> userMessage, response |-> aiResponse]

UserMessages == SelectSeq(messages, LAMBDA m : m.role = "user")

AssistantInit ==
    /\ page = "assistant"
    /\ loading = FALSE
    /\ ReportsUnmounted
    /\ EditorStateUnmounted
    /\ SettingsUnmounted
    /\ \/ /\ storeWallets \in WalletSnapshots
          /\ storeTransactions \in TransactionSnapshots
       \/ /\ storeWallets = <<>>
          /\ storeTransactions \in LongSnapshots
    /\ user \in {Null, [id |-> UserId]}
    /\ messages = <<[role |-> "assistant", content |-> Greeting]>>
    /\ input = ""
    /\ isLoading = FALSE
    /\ handler = Null
    /\ chatInserts = <<>>

\* the input's onChange: the user types a text (a first question, or the
\* last question again)
TypeInput ==
    /\ page = "assistant"
    /\ input = ""
    /\ handler = Null
    /\ Len(UserMessages) < MaxExchanges
    /\ input' \in IF UserMessages = <<>> THEN Inputs
                  ELSE {UserMessages[Len(UserMessages)].content}
    /\ UNCHANGED <<page, loading, reportVars, storeVars, editorVars,
                   settingsVars, user, messages, isLoading, handler,
                   chatInserts>>

\* (mutant) the guard dropped
SubmitProceeds_Always == TRUE

\* `if (!input.trim() || isLoading) return;`
SubmitProceeds == Trim(input) # "" /\ ~isLoading

\* handleSubmit up to `await generateAIResponse(userMessage)`
AssistantSubmit ==
    /\ page = "assistant"
    /\ input # ""
    /\ SubmitProceeds
    /\ input' = ""
    /\ isLoading' = TRUE
    /\ messages' = Append(messages, [role |-> "user", content |-> Trim(input)])
    /\ handler' = [pc |-> "context", input |-> input,
                   userMessage |-> Trim(input), aiResponse |-> Null]
    /\ UNCHANGED <<page, loading, reportVars, storeVars, editorVars,
                   settingsVars, user, chatInserts>>

\* generateAIResponse returns: the response is shown and, with a user
\* session, the chat-log insert is sent; without one the handler ends
ResponseGenerated(outcome, tip) ==
    /\ page = "assistant"
    /\ handler # Null
    /\ handler.pc = "context"
    /\ LET aiResponse == GenerateAIResponse(handler.userMessage,
                                            GetFinancialContext(outcome), tip)
       IN  /\ messages' = Append(messages, [role |-> "assistant",
                                            content |-> aiResponse])
           /\ IF user # Null
              THEN /\ chatInserts' = Append(chatInserts,
                                            ChatLogRow(user.id,
                                                       handler.userMessage,
                                                       aiResponse))
                   /\ handler' = [handler EXCEPT !.pc = "insert",
                                                 !.aiResponse = aiResponse]
                   /\ UNCHANGED isLoading
              ELSE /\ isLoading' = FALSE
                   /\ handler' = Null
                   /\ UNCHANGED chatInserts
    /\ UNCHANGED <<page, loading, reportVars, storeVars, editorVars,
                   settingsVars, user, input>>

\* the insert resolves, with or without an error: `finally` ends the handler
InsertResolves ==
    /\ page = "assistant"
    /\ handler # Null
    /\ handler.pc = "insert"
    /\ isLoading' = FALSE
    /\ handler' = Null
    /\ UNCHANGED <<page, loading, reportVars, storeVars, editorVars,
                   settingsVars, user, messages, input, chatInserts>>

\* the insert rejects: `catch` adds the error message, `finally` ends
InsertThrows ==
    /\ page = "assistant"
    /\ handler # Null
    /\ handler.pc = "insert"
    /\ messages' = Append(messages, [role |-> "assistant",
                                     content |-> ErrorApology])
    /\ isLoading' = FALSE
    /\ handler' = Null
    /\ UNCHANGED <<page, loading, reportVars, storeVars, editorVars,
                   settingsVars, user, input, chatInserts>>

AssistantNext ==
    \/ TypeInput
    \/ AssistantSubmit
    \/ \E outcome \in ContextOutcomes, tip \in 1..Len(Tips) :
          ResponseGenerated(outcome, tip)
    \/ InsertResolves
    \/ InsertThrows

AssistantSpec == AssistantInit /\ [][AssistantNext]_vars

(***************************************************************************)
(* Reference definitions used by the properties of the editors.            *)
(***************************************************************************)
\* the table and the list of the entity the mounted page edits
StoreRows == IF page = "wallets" THEN storeWallets ELSE storeTransactions

ListShown == IF page = "wallets" THEN wallets ELSE transactions

ListName == IF page = "wallets" THEN "wallets" ELSE "transactions"

AllIdle == \A s \in Slots : ops[s] = Idle

(***************************************************************************)
(* C6.  In the transaction form, switching the type sets the selected      *)
(* category to empty, and the category options offered afterwards are      *)
(* exactly the categories whose type equals the newly selected type.       *)
(***************************************************************************)
C6_TypeSwitchClearsCategory ==
    [][(/\ page = "transactions"
        /\ isModalOpen
        /\ isModalOpen'
        /\ formData'.type # formData.type)
       => /\ formData'.category_id = ""
          /\ \A c \in AvailableCategories' : c.type = formData'.type
          /\ \A c \in categories' :
                c.type = formData'.type => c \in AvailableCategories']_vars

C6_Witness ==
    /\ page = "transactions"
    /\ isModalOpen
    /\ formData.type = "income"
    /\ formData.category_id = ""
    /\ categories = StoreCategories
    /\ Ids(AvailableCategories) = {"c2"}

(***************************************************************************)
(* C7.  After a confirmed delete of the entity with id X has completed     *)
(* against a store that applies it, the list shown by the subsequent fetch *)
(* does not contain X and contains every other entity of the store with    *)
(* its fields unchanged: the delete removes the rows with id X from the    *)
(* store and nothing else, the fetch that follows reads the store's rows,  *)
(* X not among them, and the list becomes what that fetch read (or stays   *)
(* as it was when that fetch fails).                                       *)
(***************************************************************************)
C7_DeleteRemovesOnlyItsEntity ==
    [][\A s \in Slots :
          (ops[s].kind = "delete" /\ ops[s] # ops'[s]) =>
              \* the store applies the delete
              /\ (ops[s].pc = "mutate" /\ ops'[s] # Idle
                                       /\ ops'[s].mres = "ok") =>
                    /\ StoreRows' = {r \in StoreRows : r.id # ops[s].req.id}
                    /\ ops'[s].pc = "select"
              \* the fetch that follows reads the store
              /\ (ops[s].pc = "select" /\ ops[s].mres = "ok") =>
                    /\ ops'[s].pc = "deliver"
                    /\ ops'[s].snap[ListName] = StoreRows
                    /\ ops[s].req.id \notin Ids(ops'[s].snap[ListName])
              \* the list becomes what the fetch read
              /\ (ops[s].pc = "deliver" /\ ops[s].mres = "ok") =>
                    /\ ListShown' \in {ops[s].snap[ListName], ListShown}
                    /\ ListShown' = ops[s].snap[ListName] =>
                          ops[s].req.id \notin Ids(ListShown')]_vars

C7_Witness ==
    /\ page = "wallets"
    /\ AllIdle
    /\ storeWallets = {w \in InitialWallets : w.id = 2}
    /\ wallets = storeWallets

(***************************************************************************)
(* C8.  A delete request is sent to the store only after the user accepted *)
(* the confirmation prompt; when the user declines, no request (delete or  *)
(* refetch) is issued and the displayed list is unchanged.                 *)
(***************************************************************************)
C8_DeleteOnlyAfterConfirm ==
    [][/\ (\E s \in Slots : /\ ops[s] = Idle
                            /\ ops'[s] # Idle
                            /\ ops'[s].kind = "delete")
          => confirmAnswer' = "yes"
       /\ (confirmAnswer' = "no" /\ confirmAnswer # "no")
          => UNCHANGED <<ops, started, storeVars, wallets, transactions,
                         categories>>]_vars

C8_Witness ==
    /\ confirmAnswer = "no"
    /\ started = 0
    /\ AllIdle
    /\ page = "wallets"
    /\ wallets = InitialWallets
    /\ storeWallets = InitialWallets

(***************************************************************************)
(* C9.  For every create, update or delete in the Wallet and Transaction   *)
(* editors the list is re-fetched if and only if the mutation succeeded:   *)
(* when the store reports an error or the request throws, the reload is    *)
(* skipped.                                                                *)
(***************************************************************************)
C9_RefetchIffMutationSucceeded ==
    [][\A s \in Slots :
          (/\ ops[s].kind \in {"submit", "delete"}
           /\ ops[s].pc = "mutate"
           /\ ops'[s] # ops[s]) =>
              \* the handler goes on to the list query exactly when the
              \* store applied the mutation
              ((ops'[s] # Idle /\ ops'[s].pc = "select")
                   <=> (ops'[s] # Idle /\ ops'[s].mres = "ok"))]_vars

(***************************************************************************)
(* C10.  When a create or update submitted from the wallet or transaction  *)
(* form fails (the store reports an error or the request throws), the      *)
(* modal form is still open when the submit handler finishes.              *)
(***************************************************************************)
C10_ModalStaysOpenOnFailedSave ==
    [][\A s \in Slots :
          (/\ ops[s].kind = "submit"
           /\ ops[s].pc = "mutate" \/ ops[s].mres = "error"
           /\ ops'[s] = Idle
           /\ isModalOpen) => isModalOpen']_vars

(***************************************************************************)
(* C11.  On the Transactions page a sequence of user actions puts an       *)
(* existing transaction into the edit form, and submitting then issues an  *)
(* update-by-id request for that transaction (rather than an insert).      *)
(* Stated as what the page offers: whenever the loaded page lists          *)
(* transactions, one of its actions opens a listed transaction in the form *)
(* (as the edit button of a wallet card does), and a submit with a         *)
(* transaction in the form is an update of that transaction's id.          *)
(***************************************************************************)
\* the page has an action that puts a listed row into the edit form
EditOffered == ENABLED (Next /\ editing' \in ListShown)

C11_TransactionEditReachable ==
    /\ (page = "transactions" /\ ~loading /\ transactions # {}) => EditOffered
    /\ \A s \in Slots :
          (page = "transactions" /\ ops[s].kind = "submit"
                                 /\ editing # Null) =>
              /\ ops[s].req.op = "update"
              /\ ops[s].req.id = editing.id

\* what the code does instead: no transaction ever reaches the edit form,
\* and every submit of the Transactions page is an insert
TransactionNeverEdited ==
    page = "transactions" =>
        /\ editing = Null
        /\ \A s \in Slots : ops[s].kind = "submit" => ops[s].req.op = "insert"

(***************************************************************************)
(* Reference definitions used by the properties of the assistant.          *)
(***************************************************************************)
\* the keyword groups in their priority order
KeywordGroups ==
    <<{"balance", "total"}, {"income"}, {"expense", "spending"},
      {"save", "saving"}, {"wallet"}, {"advice", "tip", "help"}>>

GroupMatches(text, g) ==
    \E k \in KeywordGroups[g] : Includes(ToLowerCase(text), k)

\* the first group with a keyword in the text, 0 when there is none
FirstGroup(text) ==
    IF \E g \in 1..Len(KeywordGroups) : GroupMatches(text, g)
    THEN CHOOSE g \in 1..Len(KeywordGroups) :
            /\ GroupMatches(text, g)
            /\ \A h \in 1..(g - 1) : ~GroupMatches(text, h)
    ELSE 0

StartsWith(s, prefix) ==
    Len(s) >= Len(prefix) /\ SubSeq(s, 1, Len(prefix)) = prefix

EndsWith(s, suffix) ==
    Len(s) >= Len(suffix) /\ SubSeq(s, Len(s) - Len(suffix) + 1, Len(s)) = suffix

\* the group whose template a response is (0: the generic message, -1: none)
TemplateOf(response) ==
    IF StartsWith(response, "Your current total balance is R$ ") THEN 1
    ELSE IF StartsWith(response, "Your recent income is R$ ") THEN 2
    ELSE IF StartsWith(response, "Your recent expenses total R$ ") THEN 3
    ELSE IF StartsWith(response, "Based on your recent transactions, you're saving") THEN 4
    ELSE IF StartsWith(response, "You currently have ") THEN 5
    ELSE IF \E t \in 1..Len(Tips) : response = Tips[t] THEN 6
    ELSE IF StartsWith(response, FallbackPrefix) THEN 0
    ELSE 0 - 1

\* the positions of the user messages that have been answered
Answered ==
    {i \in 1..(Len(messages) - 1) :
        messages[i].role = "user" /\ messages[i + 1].role = "assistant"}

(***************************************************************************)
(* C12.  generateAIResponse tests the lower-cased input for the keyword    *)
(* groups in the order balance/total, income, expense/spending,            *)
(* save/saving, wallet, advice/tip/help and returns the template of the    *)
(* first group with a keyword in the input; an input with both 'total' and *)
(* 'income' gets the balance response, one with both 'wallet' and 'help'   *)
(* the wallet response.                                                    *)
(***************************************************************************)
\* as claimed: for every input
C12_FirstKeywordGroupWins ==
    \A i \in Answered :
        TemplateOf(messages[i + 1].content) = FirstGroup(messages[i].content)

\* as amended: unless the snapshot fetch threw, which is answered with the
\* apology whatever the input
C12_FirstKeywordGroupWinsGivenContext ==
    \A i \in Answered :
        \/ messages[i + 1].content = ContextApology
        \/ TemplateOf(messages[i + 1].content) = FirstGroup(messages[i].content)

C12_Witness ==
    /\ Len(messages) >= 3
    /\ messages[2] = [role |-> "user", content |-> "income total"]
    /\ TemplateOf(messages[3].content) = 1

(***************************************************************************)
(* C13.  For every input containing 'balance' (in any letter case) the     *)
(* response embeds the total balance, the sum of the balances of all       *)
(* wallets the snapshot fetch returned, together with the number of those  *)
(* wallets.                                                                *)
(***************************************************************************)
WalletBalances(rows) == [k \in 1..Len(rows) |-> rows[k].balance]

\* the total and the count of a wallet list, as the response words them
BalancePhrase(rows) ==
    "R$ " \o FormatBRL(SumTo(WalletBalances(rows), Len(rows)))
    \o " across " \o Digits(Len(rows)) \o " wallet"

\* what the wallets select can have returned: the rows, or none (data null)
WalletsReturned == {storeWallets, <<>>}

AsksBalance(text) == Includes(ToLowerCase(text), "balance")

\* as claimed: for every such input
C13_BalanceResponseEmbedsTotal ==
    \A i \in Answered :
        AsksBalance(messages[i].content) =>
            \E rows \in WalletsReturned :
                Includes(messages[i + 1].content, BalancePhrase(rows))

\* as amended: unless the snapshot fetch threw
C13_BalanceResponseEmbedsTotalGivenContext ==
    \A i \in Answered :
        AsksBalance(messages[i].content) =>
            \/ messages[i + 1].content = ContextApology
            \/ \E rows \in WalletsReturned :
                  Includes(messages[i + 1].content, BalancePhrase(rows))

C13_Witness ==
    /\ Len(storeWallets) = 2
    /\ Len(messages) >= 3
    /\ messages[2] = [role |-> "user", content |-> "BALANCE"]
    /\ Includes(messages[3].content, "R$ 6,00 across 2 wallets.")

(***************************************************************************)
(* C14.  For every input that contains none of the keywords the assistant  *)
(* returns the fixed generic capability-listing message, and that message  *)
(* contains the user's input text verbatim (same characters, same letter   *)
(* case, nothing removed).                                                 *)
(***************************************************************************)
\* a step in which the handler shows the response to its input
Responds ==
    /\ handler # Null
    /\ handler.pc = "context"
    /\ handler' # handler

NewResponse == messages'[Len(messages')].content

\* as claimed: the input as typed is echoed
C14_FallbackEchoesInput ==
    [][(Responds /\ FirstGroup(handler.input) = 0)
       => NewResponse = FallbackPrefix \o handler.input \o FallbackSuffix]_vars

\* as amended: the input without the white space around it is echoed,
\* unless the snapshot fetch threw
C14_FallbackEchoesTrimmedInput ==
    [][(Responds /\ FirstGroup(handler.input) = 0)
       => \/ NewResponse = ContextApology
          \/ NewResponse = FallbackPrefix \o TrimEnd(TrimStart(handler.input))
                                          \o FallbackSuffix]_vars

C14_Witness ==
    /\ Len(messages) >= 3
    /\ messages[2] = [role |-> "user", content |-> "Food and Rent"]
    /\ Includes(messages[3].content, "asking about \"Food and Rent\". Here's")
    /\ EndsWith(messages[3].content, "anything about your finances!")

(***************************************************************************)
(* C15.  With a user session, every exchange issues one chat-log insert    *)
(* carrying the user message and the generated response, after the         *)
(* response is shown; a failure of that insert does not keep the user      *)
(* message and the response out of the message list; without a user        *)
(* session no insert is issued.                                            *)
(***************************************************************************)
\* the position in the message list of the k-th answered user message
AnsweredAt(k) ==
    CHOOSE i \in Answered : Cardinality({j \in Answered : j <= i}) = k

C15_OneChatLogInsertPerExchange ==
    /\ user = Null => chatInserts = <<>>
    /\ user # Null =>
          /\ Len(chatInserts) = Cardinality(Answered)
          /\ \A k \in 1..Len(chatInserts) :
                /\ chatInserts[k].user_id = user.id
                /\ chatInserts[k].message = messages[AnsweredAt(k)].content
                /\ chatInserts[k].response = messages[AnsweredAt(k) + 1].content
    \* the handler has ended, however the insert ended: the exchange is shown
    /\ (handler = Null /\ ~isLoading) =>
          \A i \in 1..Len(messages) :
              messages[i].role = "user" => i \in Answered

\* the insert threw: the exchange is in the list, followed by the error text
C15_Witness ==
    /\ user # Null
    /\ handler = Null
    /\ Len(chatInserts) = 1
    /\ Len(messages) = 4
    /\ messages[2] = [role |-> "user", content |-> chatInserts[1].message]
    /\ messages[3] = [role |-> "assistant", content |-> chatInserts[1].response]
    /\ messages[4].content = ErrorApology

(***************************************************************************)
(* Reports: exportCSV.  The button is rendered once loading is false; the  *)
(* handler builds the text from the current monthlyData and hands it to    *)
(* the browser as a download, changing no state of the page.               *)
(***************************************************************************)
RECURSIVE Join(_, _)
\* Array.prototype.join
Join(parts, sep) ==
    IF parts = <<>> THEN ""
    ELSE IF Len(parts) = 1 THEN parts[1]
    ELSE parts[1] \o sep \o Join(Tail(parts), sep)

\* a number as join() writes it
NumberText(n) == IF n < 0 THEN "-" \o Digits(0 - n) ELSE Digits(n)

\* format(date, 'MMM yyyy'), the bucket's name as text
MonthLabel(key) == key[1] \o " " \o Digits(key[2])

CsvHeader == <<"Month", "Income", "Expense", "Net">>

CsvRow(row) ==
    <<MonthLabel(row.name), NumberText(row.income), NumberText(row.expense),
      NumberText(FSub(row.income, row.expense))>>

ExportCSV(rows) ==
    Join(<<Join(CsvHeader, ",")>>
            \o [k \in 1..Len(rows) |-> Join(CsvRow(rows[k]), ",")],
         "\n")

\* the export button is on screen
ExportOffered == page = "reports" /\ ~loading

(***************************************************************************)
(* Reference definitions: reading a comma-delimited text back.             *)
(***************************************************************************)
RECURSIVE Split(_, _)
\* the pieces of s between the occurrences of the character sep
Split(s, sep) ==
    LET cut == {i \in 1..Len(s) : CharAt(s, i) = sep}
    IN  IF cut = {} THEN <<s>>
        ELSE LET i == CHOOSE c \in cut : \A d \in cut : c <= d
             IN  <<SubSeq(s, 1, i - 1)>>
                    \o Split(SubSeq(s, i + 1, Len(s)), sep)

DigitValue(c) == (CHOOSE i \in 1..10 : CharAt(DigitChars, i) = c) - 1

RECURSIVE ParseNat(_)
ParseNat(s) ==
    IF Len(s) = 0 THEN 0
    ELSE 10 * ParseNat(SubSeq(s, 1, Len(s) - 1))
            + DigitValue(CharAt(s, Len(s)))

ParseNumber(s) ==
    IF Len(s) > 0 /\ CharAt(s, 1) = "-"
    THEN 0 - ParseNat(SubSeq(s, 2, Len(s)))
    ELSE ParseNat(s)

CsvLines == Split(ExportCSV(monthlyData), "\n")

\* the failed loads: the store answered without data, or the request threw
FetchFailed == ~pending /\ lastFetch \in {"null", "throw"}

(***************************************************************************)
(* C16.  Whenever the report fetch fails (no data, or the request throws)  *)
(* all aggregates are empty / zero afterwards and loading is cleared, on   *)
(* the first load and on any later load after a successful one.            *)
(***************************************************************************)
\* no month shows an amount: there are no buckets, or all of them hold 0
MonthlyEmpty ==
    \A k \in 1..Len(monthlyData) :
        monthlyData[k].income = 0 /\ monthlyData[k].expense = 0

C16_FailedFetchLeavesReportEmpty ==
    (page = "reports" /\ FetchFailed) =>
        /\ MonthlyEmpty
        /\ categoryData = <<>>
        /\ stats = ZeroStats
        /\ ~loading

(***************************************************************************)
(* C17.  Whenever the export can be triggered, after a successful and      *)
(* after a failed fetch alike, the text exportCSV produces is the header   *)
(* row Month,Income,Expense,Net followed by exactly 6 rows, the 6 months   *)
(* of the window oldest first, and the Net field of each row is the row's  *)
(* income minus the row's expense.                                         *)
(***************************************************************************)
C17_ExportHasHeaderAndSixRows ==
    ExportOffered =>
        /\ Len(CsvLines) = 7
        /\ CsvLines[1] = "Month,Income,Expense,Net"
        /\ \A k \in 1..6 :
              LET fields == Split(CsvLines[k + 1], ",")
              IN  /\ Len(fields) = 4
                  /\ fields[1] =
                        MonthLabel(LabelOfIndex(MonthIndex(today) - (6 - k)))
                  /\ ParseNumber(fields[4]) =
                        FSub(ParseNumber(fields[2]), ParseNumber(fields[3]))

(***************************************************************************)
(* C19.  The report's aggregates are a function of the list read by the    *)
(* latest successful fetch: a load that reads the same list again leaves   *)
(* the monthly, category and global aggregates as they were (nothing is    *)
(* added to what the previous load computed), and after the store changed  *)
(* and a load succeeded they are the aggregates of the new list alone.     *)
(***************************************************************************)
\* the bucket a row is counted in: the month of its date read as local time
LocalLabel(t) == FormatMonthKey(ParseDateLocal(t.date, tzWest))

AggregatesOfFetched ==
    /\ stats.totalIncome = SumWhere(fetched.rows, LAMBDA t : t.type = "income")
    /\ stats.totalExpense = SumWhere(fetched.rows, LAMBDA t : t.type = "expense")
    /\ stats.netBalance = FSub(stats.totalIncome, stats.totalExpense)
    /\ Len(monthlyData) = 6
    /\ \A k \in 1..6 :
          /\ monthlyData[k].name = LabelOfIndex(MonthIndex(today) - (6 - k))
          /\ monthlyData[k].income =
                SumWhere(fetched.rows, LAMBDA t : t.type = "income"
                             /\ LocalLabel(t) = monthlyData[k].name)
          /\ monthlyData[k].expense =
                SumWhere(fetched.rows, LAMBDA t : t.type = "expense"
                             /\ LocalLabel(t) = monthlyData[k].name)
    /\ {categoryData[k].name : k \in 1..Len(categoryData)} =
          {fetched.rows[i].category.name :
              i \in {j \in 1..Len(fetched.rows) :
                         CategorisedExpense(fetched.rows[j])}}
    /\ \A k \in 1..Len(categoryData) :
          categoryData[k].value =
              SumWhere(fetched.rows, LAMBDA t : CategorisedExpense(t)
                               /\ t.category.name = categoryData[k].name)
    /\ \A k, l \in 1..Len(categoryData) :
          categoryData[k].name = categoryData[l].name => k = l

\* a load ends with the rows the previous successful load had read
SameListLoaded ==
    /\ lastFetch # "none"
    /\ pending /\ ~pending'
    /\ lastFetch' = "data"
    /\ fetched' = fetched

C19_AggregatesOfLatestFetchOnly ==
    /\ [](fetched # Null => AggregatesOfFetched)
    /\ [][SameListLoaded =>
             UNCHANGED <<monthlyData, categoryData, stats>>]_vars

\* a second load has succeeded on a store that holds one expense
C19_Witness ==
    /\ page = "reports"
    /\ loads >= 1
    /\ ~pending
    /\ lastFetch = "data"
    /\ Len(fetched.rows) = 1
    /\ fetched.rows[1].amount = 1
    /\ Len(categoryData) = 1
    /\ categoryData[1].name = "Rent"
    /\ stats.totalExpense = 1

(***************************************************************************)
(* The Settings page: the password form and handlePasswordUpdate.          *)
(* `ops` holds the invocations of handlePasswordUpdate suspended at        *)
(* `await supabase.auth.updateUser(...)`.                                  *)
(***************************************************************************)
MinPasswordLength == 6

NoMessage == [type |-> "", text |-> ""]

EmptyPasswords == [newPassword |-> "", confirmPassword |-> ""]

\* what the user types into a password field: nothing, 5, 6 and 7 characters
PasswordTexts == {"", "abc12", "abc123", "abc1234"}

\* what a refused update and a failed request report as error.message
RefusalTexts == {"New password should be different from the old password."}

NetworkErrorText == "Failed to fetch"

Mismatch(p) == p.newPassword # p.confirmPassword

\* (mutant) one character less is accepted
TooShort_Lenient(p) == Len(p.newPassword) < MinPasswordLength - 1

TooShort(p) == Len(p.newPassword) < MinPasswordLength

SettingsInit ==
    /\ page = "settings"
    /\ ReportsUnmounted
    /\ EditorsUnmounted
    /\ AssistantUnused
    /\ loading = TRUE
    /\ passwords = EmptyPasswords
    /\ message = NoMessage
    /\ authRequests = <<>>

\* fetchProfile ends (with a row, without one, or thrown): finally
FetchProfile ==
    /\ page = "settings"
    /\ loading
    /\ loading' = FALSE
    /\ UNCHANGED <<page, reportVars, storeVars, editorVars, settingsVars,
                   assistantVars>>

\* onChange of the two password inputs
SetPassword(field, text) ==
    /\ page = "settings"
    /\ ~loading
    /\ passwords' = [passwords EXCEPT ![field] = text]
    /\ UNCHANGED <<page, loading, reportVars, storeVars, editorVars, message,
                   authRequests, assistantVars>>

TypePassword ==
    \E field \in {"newPassword", "confirmPassword"}, text \in PasswordTexts :
        SetPassword(field, text)

\* handlePasswordUpdate up to its await (or to its early return)
HandlePasswordUpdate ==
    /\ page = "settings"
    /\ ~loading
    /\ IF Mismatch(passwords)
       THEN /\ message' = [type |-> "error", text |-> "Passwords do not match"]
            /\ UNCHANGED <<authRequests, isSaving, ops>>
       ELSE IF TooShort(passwords)
       THEN /\ message' = [type |-> "error",
                           text |-> "Password must be at least 6 characters"]
            /\ UNCHANGED <<authRequests, isSaving, ops>>
       ELSE /\ Len(authRequests) < MaxUpdates
            /\ message' = NoMessage
            /\ isSaving' = TRUE
            /\ authRequests' =
                  Append(authRequests, [password |-> passwords.newPassword])
            /\ ops' = Append(ops, [pc |-> "updateUser"])
    /\ UNCHANGED <<page, loading, reportVars, storeVars, passwords, wallets,
                   transactions, categories, isModalOpen, editing, formData,
                   started, confirmAnswer, assistantVars>>

\* the rest of a suspended invocation: ops without its first entry
Resumed == ops # <<>> /\ ops' = Tail(ops)

\* updateUser resolved without error
UpdateUserDone ==
    /\ page = "settings"
    /\ Resumed
    /\ message' = [type |-> "success", text |-> "Password updated successfully!"]
    /\ passwords' = EmptyPasswords
    /\ isSaving' = FALSE
    /\ UNCHANGED <<page, loading, reportVars, storeVars, authRequests, wallets,
                   transactions, categories, isModalOpen, editing, formData,
                   started, confirmAnswer, assistantVars>>

\* updateUser resolved to { error }: `if (error) throw error`, catch, finally
UpdateUserRefused ==
    /\ page = "settings"
    /\ Resumed
    /\ \E text \in RefusalTexts : message' = [type |-> "error", text |-> text]
    /\ isSaving' = FALSE
    /\ UNCHANGED <<page, loading, reportVars, storeVars, passwords,
                   authRequests, wallets, transactions, categories,
                   isModalOpen, editing, formData, started, confirmAnswer,
                   assistantVars>>

\* the request rejected: catch, finally
UpdateUserThrows ==
    /\ page = "settings"
    /\ Resumed
    /\ message' = [type |-> "error", text |-> NetworkErrorText]
    /\ isSaving' = FALSE
    /\ UNCHANGED <<page, loading, reportVars, storeVars, passwords,
                   authRequests, wallets, transactions, categories,
                   isModalOpen, editing, formData, started, confirmAnswer,
                   assistantVars>>

SettingsNext ==
    \/ FetchProfile
    \/ TypePassword
    \/ HandlePasswordUpdate
    \/ UpdateUserDone
    \/ UpdateUserRefused
    \/ UpdateUserThrows

SettingsSpec == SettingsInit /\ [][SettingsNext]_vars

(***************************************************************************)
(* C18.  When the new password differs from the confirmation or has fewer  *)
(* than 6 characters, handlePasswordUpdate sets an error message and       *)
(* returns without a network call and without setting isSaving; a          *)
(* password-update request is sent only when the two fields are equal and  *)
(* at least 6 characters long.                                             *)
(***************************************************************************)
FieldsInvalid ==
    \/ passwords.newPassword # passwords.confirmPassword
    \/ Len(passwords.newPassword) < 6

C18_ValidationBeforeAnyRequest ==
    /\ [][(HandlePasswordUpdate /\ FieldsInvalid) =>
             /\ message'.type = "error"
             /\ message'.text # ""
             /\ UNCHANGED <<authRequests, isSaving, ops>>]_vars
    /\ [][authRequests' # authRequests =>
             /\ ~FieldsInvalid
             /\ authRequests' =
                   Append(authRequests, [password |-> passwords.newPassword])]_vars
    /\ [][(isSaving' /\ ~isSaving) => ~FieldsInvalid]_vars

\* a valid update was sent and answered; the next submit, with a confirmation
\* that differs, was turned down and sent nothing
C18_Witness ==
    /\ page = "settings"
    /\ Len(authRequests) = 1
    /\ ops = <<>>
    /\ ~isSaving
    /\ passwords.newPassword = "abc123"
    /\ passwords.confirmPassword = "abc1234"
    /\ message = [type |-> "error", text |-> "Passwords do not match"]

(***************************************************************************)
(* The Dashboard (src/unnamed/part_002).  fetchData awaits three selects   *)
(* one after the other and only then sets the state; `handler` holds the   *)
(* invocation between two awaits with what its selects have answered so    *)
(* far.  Here `wallets` and `transactions` are the lists shown, `stats`    *)
(* is { totalBalance, income, expenses }, `fetched` holds the rows the     *)
(* last answered `type, amount` select read, and the store's two tables    *)
(* are kept as lists in the order the selects ask for.                     *)
(***************************************************************************)
RecentLimit == 10

ZeroDashboardStats == [totalBalance |-> 0, income |-> 0, expenses |-> 0]

\* the variables the Dashboard leaves alone
dashboardUnused ==
    <<page, today, tzWest, txs, monthlyData, categoryData, pending, nextId,
      categories, isModalOpen, editing, formData, isSaving, ops, started,
      confirmAnswer, settingsVars, user, messages, input, isLoading,
      chatInserts>>

\* fetchData has been called and waits for its first select
FetchDataCalled ==
    [pc |-> "wallets", walletsData |-> Null, transactionsData |-> Null]

DashboardInit ==
    /\ page = "dashboard"
    /\ today = MkDate(2024, 3, 31)
    /\ tzWest = FALSE
    /\ txs = <<>>
    /\ monthlyData = <<>>
    /\ categoryData = <<>>
    /\ pending = FALSE
    /\ nextId = 1
    /\ categories = {}
    /\ isModalOpen = FALSE
    /\ editing = Null
    /\ formData = Null
    /\ isSaving = FALSE
    /\ ops = <<>>
    /\ started = 0
    /\ confirmAnswer = "none"
    /\ SettingsUnmounted
    /\ wallets = <<>>
    /\ transactions = <<>>
    /\ user = [id |-> UserId]
    /\ messages = <<>>
    /\ input = ""
    /\ isLoading = FALSE
    /\ chatInserts = <<>>
    /\ storeWallets \in WalletSnapshots
    /\ storeTransactions \in TransactionSnapshots
    /\ loading = TRUE
    /\ stats = ZeroDashboardStats
    /\ lastFetch = "none"
    /\ fetched = Null
    /\ loads = 0
    /\ handler = FetchDataCalled

\* what a select resolves to: { data: rows } or { data: null, error }
SelectAnswers(rows) == {[rows |-> rows], Null}

\* the first select (wallets by created_at) is answered
FetchData_Wallets ==
    /\ page = "dashboard"
    /\ handler # Null
    /\ handler.pc = "wallets"
    /\ \E walletsData \in SelectAnswers(storeWallets) :
          handler' = [handler EXCEPT !.pc = "transactions",
                                     !.walletsData = walletsData]
    /\ UNCHANGED <<dashboardUnused, loading, stats, lastFetch, fetched, loads,
                   storeWallets, storeTransactions, wallets, transactions>>

\* the second select (the 10 latest transactions) is answered
FetchData_Transactions ==
    /\ page = "dashboard"
    /\ handler # Null
    /\ handler.pc = "transactions"
    /\ \E transactionsData \in
              SelectAnswers(Take(storeTransactions, RecentLimit)) :
          handler' = [handler EXCEPT !.pc = "stats",
                                     !.transactionsData = transactionsData]
    /\ UNCHANGED <<dashboardUnused, loading, stats, lastFetch, fetched, loads,
                   storeWallets, storeTransactions, wallets, transactions>>

\* walletsData?.reduce((sum, w) => sum + Number(w.balance), 0) || 0
TotalBalance(walletsData) ==
    IF walletsData = Null THEN 0 ELSE ReduceBalances(0, walletsData.rows)

\* the third select (type, amount of all transactions) is answered: the rest
\* of the try block, then finally
FetchData_Stats ==
    /\ page = "dashboard"
    /\ handler # Null
    /\ handler.pc = "stats"
    /\ \E statsData \in SelectAnswers(storeTransactions) :
          /\ wallets' = IF handler.walletsData # Null
                        THEN handler.walletsData.rows ELSE wallets
          /\ transactions' = IF handler.transactionsData # Null
                             THEN handler.transactionsData.rows
                             ELSE transactions
          /\ IF statsData # Null
             THEN /\ stats' =
                       [totalBalance |-> TotalBalance(handler.walletsData),
                        income |->
                            ReduceAmounts(0, SelectSeq(statsData.rows,
                                                       IsIncome)),
                        expenses |->
                            ReduceAmounts(0, SelectSeq(statsData.rows,
                                                       IsExpense))]
                  /\ fetched' = statsData
             ELSE UNCHANGED <<stats, fetched>>
          /\ lastFetch' = IF /\ handler.walletsData # Null
                             /\ handler.transactionsData # Null
                             /\ statsData # Null
                          THEN "data" ELSE "null"
    /\ loading' = FALSE
    /\ handler' = Null
    /\ UNCHANGED <<dashboardUnused, loads, storeWallets, storeTransactions>>

\* one of the awaited requests rejects: catch (log), finally
FetchData_Throws ==
    /\ page = "dashboard"
    /\ handler # Null
    /\ loading' = FALSE
    /\ lastFetch' = "throw"
    /\ handler' = Null
    /\ UNCHANGED <<dashboardUnused, stats, fetched, loads, storeWallets,
                   storeTransactions, wallets, transactions>>

\* the effect runs again: `if (user) fetchData()`
DashboardEffectRuns ==
    /\ page = "dashboard"
    /\ handler = Null
    /\ loads < MaxLoads
    /\ loads' = loads + 1
    /\ handler' = FetchDataCalled
    /\ UNCHANGED <<dashboardUnused, loading, stats, lastFetch, fetched,
                   storeWallets, storeTransactions, wallets, transactions>>

\* wallets or transactions are added, removed or changed in the store
DashboardStoreChanges ==
    /\ page = "dashboard"
    /\ storeWallets' \in WalletSnapshots
    /\ storeTransactions' \in TransactionSnapshots
    /\ <<storeWallets', storeTransactions'>> #
          <<storeWallets, storeTransactions>>
    /\ UNCHANGED <<dashboardUnused, loading, stats, lastFetch, fetched, loads,
                   handler, wallets, transactions>>

DashboardNext ==
    \/ FetchData_Wallets
    \/ FetchData_Transactions
    \/ FetchData_Stats
    \/ FetchData_Throws
    \/ DashboardEffectRuns
    \/ DashboardStoreChanges

DashboardSpec == DashboardInit /\ [][DashboardNext]_vars

(***************************************************************************)
(* C20.  After a dashboard load over wallets W and transactions T,         *)
(* stats.totalBalance is the sum of the balances of the wallets shown,     *)
(* stats.income the sum of the income amounts and stats.expenses the sum   *)
(* of the expense amounts of T; balances 100 and 50 with an income of 200  *)
(* and an expense of 75 give 150, 200 and 75 (here in units of 25: 4 and   *)
(* 2, 8 and 3 give 6, 8 and 3).  In particular totalBalance is the sum of  *)
(* the balances of the wallets shown in every state reached after a load   *)
(* has completed.                                                          *)
(***************************************************************************)
DashboardLoadCompleted == page = "dashboard" /\ ~loading /\ handler = Null

BalancesShown ==
    SumTo([k \in 1..Len(wallets) |-> wallets[k].balance], Len(wallets))

C20_TotalBalanceIsSumOfWalletsShown ==
    DashboardLoadCompleted =>
        /\ stats.totalBalance = BalancesShown
        /\ fetched # Null =>
              /\ stats.income =
                    SumWhere(fetched.rows, LAMBDA t : t.type = "income")
              /\ stats.expenses =
                    SumWhere(fetched.rows, LAMBDA t : t.type = "expense")
        /\ (/\ lastFetch = "data"
            /\ wallets = <<[balance |-> 4], [balance |-> 2]>>
            /\ fetched.rows = <<[type |-> "income", amount |-> 8],
                                [type |-> "expense", amount |-> 3]>>) =>
              stats = [totalBalance |-> 6, income |-> 8, expenses |-> 3]

(***************************************************************************)
(* C21.  processCategoryData groups by category name: the expense          *)
(* transactions whose categories share a name are summed into one bucket,  *)
(* there is exactly one bucket per distinct name, and the bucket's color   *)
(* is the color of the first transaction of that name in list order,       *)
(* whatever the later transactions of the name carry.                      *)
(***************************************************************************)
\* the position in txs of the first expense carrying the category name
FirstOfName(name) ==
    CHOOSE i \in 1..Len(txs) :
        /\ CategorisedExpense(txs[i]) /\ txs[i].category.name = name
        /\ \A j \in 1..(i - 1) :
              ~(CategorisedExpense(txs[j]) /\ txs[j].category.name = name)

OneBucketPerName ==
    /\ {categoryData[k].name : k \in 1..Len(categoryData)} =
          {txs[i].category.name :
              i \in {j \in 1..Len(txs) : CategorisedExpense(txs[j])}}
    /\ \A k, l \in 1..Len(categoryData) :
          categoryData[k].name = categoryData[l].name => k = l
    /\ \A k \in 1..Len(categoryData) :
          categoryData[k].value =
              SumWhere(txs, LAMBDA t : CategorisedExpense(t)
                               /\ t.category.name = categoryData[k].name)

\* the claim as stated: the bucket has the color the first transaction carries
C21_BucketColorIsFirstSeen ==
    ReportLoaded =>
        /\ OneBucketPerName
        /\ \A k \in 1..Len(categoryData) :
              categoryData[k].color =
                  txs[FirstOfName(categoryData[k].name)].category.color

\* the claim as amended: when the first transaction of the name carries no
\* color, the bucket has the first color of the palette
C21_BucketColorIsFirstSeenOrDefault ==
    ReportLoaded =>
        /\ OneBucketPerName
        /\ \A k \in 1..Len(categoryData) :
              LET first == txs[FirstOfName(categoryData[k].name)].category.color
              IN  categoryData[k].color =
                      IF first = "" THEN "#3B82F6" ELSE first

\* two expenses named Food with different colors, merged under the first's
C21_Witness ==
    /\ ReportLoaded
    /\ Len(txs) >= 2
    /\ CategorisedExpense(txs[1]) /\ CategorisedExpense(txs[2])
    /\ txs[1].category = [name |-> "Food", color |-> "#EF4444"]
    /\ txs[2].category = [name |-> "Food", color |-> ""]
    /\ Len(categoryData) = 1
    /\ categoryData[1].color = "#EF4444"
    /\ categoryData[1].value = FAdd(txs[1].amount, txs[2].amount)
    /\ Len(txs) = 2

(***************************************************************************)
(* C22.  The snapshot sums income and expenses over the 20 most recent     *)
(* transactions: when the store holds more than 20 transactions,           *)
(* recentIncome and recentExpenses are the sums over exactly the 20        *)
(* transactions with the latest dates.  The two sums are read off the      *)
(* income and the expense response; a response given after a failed        *)
(* snapshot fetch (the apology, or sums of 0) is not held against it.      *)
(***************************************************************************)
\* the rows of the table with the latest dates, as many as the limit allows
LatestRows ==
    SelectSeq(storeTransactions,
              LAMBDA t : Cardinality({k \in 1..Len(storeTransactions) :
                             DayNumber(storeTransactions[k].date)
                                 > DayNumber(t.date)}) < 20)

SumsShown(text, phrase, sum) ==
    \/ text = ContextApology
    \/ Includes(text, phrase \o FormatBRL(0) \o ". ")
    \/ Includes(text, phrase \o FormatBRL(sum) \o ". ")

C22_SumsOverTwentyLatest ==
    Len(storeTransactions) > 20 =>
        \A i \in Answered :
            /\ messages[i].content = "income" =>
                  SumsShown(messages[i + 1].content,
                            "Your recent income is R$ ",
                            SumWhere(LatestRows, LAMBDA t : t.type = "income"))
            /\ messages[i].content = "expense" =>
                  SumsShown(messages[i + 1].content,
                            "Your recent expenses total R$ ",
                            SumWhere(LatestRows, LAMBDA t : t.type = "expense"))

(***************************************************************************)
(* C23.  Within one dashboard load the three queries (wallets, recent      *)
(* transactions, stats) are issued concurrently: all three requests are    *)
(* outstanding before the response to any of them is awaited, and the      *)
(* load continues only once all three have answered.                       *)
(***************************************************************************)
\* the selects fetchData has sent when it waits at h.pc: each `await
\* supabase.from(...)` sends its request when control reaches it
RequestsIssued(h) ==
    IF h.pc = "wallets" THEN {"wallets"}
    ELSE IF h.pc = "transactions" THEN {"wallets", "transactions"}
    ELSE {"wallets", "transactions", "stats"}

\* a step in which the waiting load takes a response (or the rejection)
LoadResumes == page = "dashboard" /\ handler # Null /\ handler' # handler

C23_QueriesIssuedTogether ==
    [][LoadResumes =>
          RequestsIssued(handler) = {"wallets", "transactions", "stats"}]_vars

(***************************************************************************)
(* The data loads of the Dashboard and of the Transactions page, over      *)
(* several loads: the `[user]` effect calls fetchData again, and deletes   *)
(* on the Transactions page change the store and fetch again.  Here        *)
(* `lastFetch` also records how the last fetchData of the Transactions     *)
(* page ended.                                                             *)
(***************************************************************************)
\* how a joined wait ended: thrown, some list without data, all with data
FetchEnd(outcome) ==
    IF outcome = Thrown THEN "throw"
    ELSE IF outcome.failed = {} THEN "data" ELSE "null"

FetchObserved(s, outcome) ==
    /\ FetchResumes(s, outcome)
    /\ lastFetch' = FetchEnd(outcome)
    /\ UNCHANGED <<today, tzWest, txs, monthlyData, categoryData, stats,
                   pending, fetched, loads>>

\* the effect of Transactions runs again: `if (user) fetchData()`
EditorEffectRuns ==
    /\ page = "transactions"
    /\ HasFreeSlot
    /\ loads < MaxLoads
    /\ loads' = loads + 1
    /\ ops' = [ops EXCEPT ![FreeSlot] = NewOp("load", "select", Null)]
    /\ UNCHANGED <<page, settingsVars, assistantVars, loading, today, tzWest,
                   txs, monthlyData, categoryData, stats, lastFetch, pending,
                   fetched, storeVars, wallets, transactions, categories,
                   isModalOpen, editing, formData, isSaving, started,
                   confirmAnswer>>

LoadInit ==
    \/ DashboardInit
    \/ EditorInit /\ page = "transactions"

LoadNext ==
    \/ FetchData_Wallets
    \/ FetchData_Transactions
    \/ FetchData_Stats
    \/ FetchData_Throws
    \/ DashboardEffectRuns
    \/ DashboardStoreChanges
    \/ EditorEffectRuns
    \/ page = "transactions" /\ DeleteClicked
    \/ page = "transactions" /\ \E s \in Slots : MutationApplied(s)
    \/ page = "transactions" /\ \E s \in Slots : MutationRefused(s)
    \/ page = "transactions" /\ \E s \in Slots : MutationThrows(s)
    \/ page = "transactions" /\ \E s \in Slots : SelectExecutes(s)
    \/ /\ page = "transactions"
       /\ \E s \in Slots :
             /\ ops[s].kind # "idle"
             /\ \E outcome \in SelectOutcomes(ops[s].snap) :
                   FetchObserved(s, outcome)

LoadSpec == LoadInit /\ [][LoadNext]_vars

(***************************************************************************)
(* C24.  If one of the sub-queries of a data load (Dashboard or            *)
(* Transactions page) throws, the load is a total failure: none of the     *)
(* component's data states (wallets, transactions, categories, stats) is   *)
(* updated from it, not even from the sub-queries that succeeded, and      *)
(* loading is still cleared.                                               *)
(***************************************************************************)
\* a step that ends a fetchData
LoadEnds ==
    \/ page = "dashboard" /\ handler # Null /\ handler' = Null
    \/ /\ page = "transactions"
       /\ \E s \in Slots :
             ops[s] # Idle /\ ops[s].pc = "deliver" /\ ops'[s] = Idle

C24_ThrownLoadUpdatesNothing ==
    [][(LoadEnds /\ lastFetch' = "throw") =>
          /\ UNCHANGED <<wallets, transactions, categories, stats>>
          /\ ~loading']_vars

\* a later load of the Dashboard threw after the store had changed: the rows
\* of the earlier load are still shown
C24_Witness ==
    /\ page = "dashboard"
    /\ lastFetch = "throw"
    /\ handler = Null
    /\ ~loading
    /\ loads >= 1
    /\ wallets = <<[balance |-> 4]>>
    /\ storeWallets = <<[balance |-> 4], [balance |-> 2]>>
    /\ stats.totalBalance = 4

(***************************************************************************)
(* C25.  After any sequence of actions on the new-transaction form (open,  *)
(* switch type, choose a category from the options offered, edit other     *)
(* fields) the selected category is empty or a category of the form's      *)
(* current type, so a submitted insert never pairs a transaction type with *)
(* a category of the other type.                                           *)
(***************************************************************************)
\* category id `id` (empty when `none`) goes with transaction type `type`
CategoryFits(id, none, type) ==
    \/ id = none
    \/ \E c \in StoreCategories : c.id = id /\ c.type = type

C25_CategoryMatchesType ==
    page = "transactions" =>
        /\ CategoryFits(formData.category_id, "", formData.type)
        /\ \A s \in Slots :
              (ops[s] # Idle /\ ops[s].kind = "submit") =>
                  CategoryFits(ops[s].req.values.category_id, NullId,
                               ops[s].req.values.type)
        /\ \A r \in storeTransactions :
              CategoryFits(r.category_id, NullId, r.type)

\* the form was switched to income, an income category chosen, and the
\* insert stored
C25_Witness ==
    /\ page = "transactions"
    /\ \E r \in storeTransactions :
          /\ r.id \notin Ids(InitialTransactions)
          /\ r.type = "income"
          /\ r.category_id = "c2"

(***************************************************************************)
(* The assistant over a conversation of several exchanges.  The input is   *)
(* rendered with disabled={isLoading}: it takes text only while no         *)
(* exchange is in flight.  A submit that handleSubmit ignores changes      *)
(* nothing.                                                                *)
(***************************************************************************)
ChatInputs == {"Hi", "  ", "wallet"}

ChatInit ==
    /\ AssistantInit
    /\ storeWallets \in {<<>>, <<[balance |-> 4]>>}
    /\ storeTransactions = <<>>

\* the input's onChange: the text is typed or replaced
TypeChatInput ==
    /\ page = "assistant"
    /\ ~isLoading
    /\ Len(UserMessages) < MaxChats
    /\ input' \in ChatInputs \ {input}
    /\ UNCHANGED <<page, loading, reportVars, storeVars, editorVars,
                   settingsVars, user, messages, isLoading, handler,
                   chatInserts>>

ChatNext ==
    \/ TypeChatInput
    \/ AssistantSubmit
    \/ \E outcome \in ContextOutcomes, tip \in 1..Len(Tips) :
          ResponseGenerated(outcome, tip)
    \/ InsertResolves
    \/ InsertThrows

ChatSpec == ChatInit /\ [][ChatNext]_vars

(***************************************************************************)
(* C26.  A submit is ignored when the trimmed input is empty or while an   *)
(* exchange is in flight (isLoading), so at most one exchange is pending   *)
(* at a time and the message list never has two user messages in a row.    *)
(***************************************************************************)
\* the user messages no assistant message follows yet
Unanswered ==
    {i \in 1..Len(messages) : messages[i].role = "user"} \ Answered

\* a step that puts a user message on the list
UserMessageAdded ==
    /\ Len(messages') = Len(messages) + 1
    /\ messages'[Len(messages')].role = "user"

C26_OneExchangeAtATime ==
    /\ [](/\ Cardinality(Unanswered) <= 1
          /\ Unanswered # {} => isLoading
          /\ \A i \in 1..(Len(messages) - 1) :
                ~(messages[i].role = "user" /\ messages[i + 1].role = "user")
          /\ \A i \in 1..Len(messages) :
                messages[i].role = "user" => Trim(messages[i].content) # "")
    /\ [][UserMessageAdded =>
             /\ ~isLoading
             /\ Trim(input) # ""
             /\ Unanswered = {}]_vars

\* a second exchange is in flight after a first one was answered; a blank
\* input in between was not taken
C26_Witness ==
    /\ page = "assistant"
    /\ isLoading
    /\ Len(messages) = 4
    /\ messages[2].role = "user"
    /\ messages[3].role = "assistant"
    /\ messages[4].role = "user"

(***************************************************************************)
(* C27.  For every exchange, whatever fails (context fetch, response       *)
(* generation or chat-log insert), the submitted user message is followed  *)
(* in the message list by exactly one assistant message before isLoading   *)
(* returns to false.                                                       *)
(***************************************************************************)
\* the assistant messages that directly follow the user message at i
RepliesTo(i) ==
    {j \in (i + 1)..Len(messages) :
        \A k \in (i + 1)..j : messages[k].role = "assistant"}

C27_OneReplyPerExchange ==
    (page = "assistant" /\ ~isLoading) =>
        \A i \in 1..Len(messages) :
            messages[i].role = "user" => Cardinality(RepliesTo(i)) = 1

(***************************************************************************)
(* Overlapping handlers of the Wallets and Transactions pages.  The page   *)
(* has loaded and a confirmed delete is with the store; the user starts a  *)
(* further delete or a save before it has finished.  Here the store        *)
(* answers every request without error; `started` counts the handlers      *)
(* begun after the one in flight.                                          *)
(***************************************************************************)
OverlapInit ==
    /\ page \in {"wallets", "transactions"}
    /\ ReportsUnmounted
    /\ SettingsUnmounted
    /\ AssistantUnused
    /\ storeWallets = InitialWallets
    /\ storeTransactions = InitialTransactions
    /\ nextId = 3
    /\ loading = FALSE
    /\ wallets = IF page = "wallets" THEN storeWallets
                 ELSE WalletNames(storeWallets)
    /\ transactions = IF page = "wallets" THEN {} ELSE storeTransactions
    /\ categories = IF page = "wallets" THEN {} ELSE StoreCategories
    /\ isModalOpen = FALSE
    /\ editing = Null
    /\ formData = IF page = "wallets" THEN NewWalletForm ELSE NewTransactionForm
    /\ isSaving = FALSE
    /\ \E id \in Ids(StoreRows) :
          ops = [s \in Slots |->
                   IF s = 1
                   THEN NewOp("delete", "mutate", [op |-> "delete", id |-> id])
                   ELSE Idle]
    /\ started = 0
    /\ confirmAnswer = "yes"

OverlapNext ==
    \/ OpenModalNew
    \/ \E w \in wallets : OpenModalEdit(w)
    \/ WalletSetField
    \/ TransactionSetField
    \/ HandleSubmit
    \/ DeleteClicked
    \/ \E s \in Slots : MutationApplied(s)
    \/ \E s \in Slots : SelectExecutes(s)
    \/ \E s \in Slots :
          /\ ops[s].kind # "idle"
          /\ FetchReturns(s, [failed |-> {}])

OverlapSpec == OverlapInit /\ [][OverlapNext]_vars

(***************************************************************************)
(* C28.  When several confirmed deletes (or a delete and a save) on the    *)
(* Wallets or Transactions page overlap and their re-fetch responses       *)
(* arrive in any order, then once all in-flight operations have completed  *)
(* the displayed list equals the store's current content: no deleted       *)
(* entity is still displayed.                                              *)
(***************************************************************************)
C28_ListEqualsStoreWhenIdle ==
    AllIdle => ListShown = StoreRows

(***************************************************************************)
(* C29.  Editing a wallet changes only its name, type, color and currency: *)
(* the update request is keyed by the edited wallet's id and its payload   *)
(* never contains balance, id or user_id, so the stored balance of the     *)
(* edited wallet and every field of every other wallet are unchanged; a    *)
(* create request carries the form fields plus the current user's id and   *)
(* no balance.                                                             *)
(***************************************************************************)
WalletFormFields == {"name", "type", "color", "currency"}

\* handleSubmit of the Wallets page has just sent the request of slot s
WalletSubmitSent(s) ==
    /\ page = "wallets"
    /\ ops[s] = Idle
    /\ ops'[s] # Idle
    /\ ops'[s].kind = "submit"

\* the store has just applied the wallet update of slot s
WalletUpdateApplied(s) ==
    /\ page = "wallets"
    /\ ops[s].kind = "submit"
    /\ ops[s].pc = "mutate"
    /\ ops[s].req.op = "update"
    /\ ops'[s] # Idle
    /\ ops'[s].mres = "ok"

C29_WalletEditTouchesFormFieldsOnly ==
    [][\A s \in Slots :
          /\ (WalletSubmitSent(s) /\ editing # Null) =>
                /\ ops'[s].req.op = "update"
                /\ ops'[s].req.id = editing.id
                /\ DOMAIN ops'[s].req.values = WalletFormFields
                /\ ops'[s].req.values = formData
          /\ (WalletSubmitSent(s) /\ editing = Null) =>
                /\ ops'[s].req.op = "insert"
                /\ DOMAIN ops'[s].req.values = WalletFormFields \cup {"user_id"}
                /\ ops'[s].req.values.user_id = UserId
                /\ \A f \in WalletFormFields :
                      ops'[s].req.values[f] = formData[f]
          /\ WalletUpdateApplied(s) =>
                /\ Ids(storeWallets') = Ids(storeWallets)
                /\ \A w \in storeWallets :
                      IF w.id = ops[s].req.id
                      THEN \E v \in storeWallets' :
                              /\ v.id = w.id
                              /\ v.balance = w.balance
                              /\ v.user_id = w.user_id
                              /\ \A f \in WalletFormFields :
                                    v[f] = ops[s].req.values[f]
                      ELSE w \in storeWallets']_vars

\* wallet 1 (Cash, balance 100) was renamed and kept its balance, wallet 2
\* is as it was
C29_Witness ==
    /\ page = "wallets"
    /\ \E w \in storeWallets :
          w.id = 1 /\ w.name = "Trip" /\ w.balance = 100
    /\ \E w \in storeWallets :
          w.id = 2 /\ w \in InitialWallets

(***************************************************************************)
(* The four pages that load on mount (Wallets, Transactions, Reports,      *)
(* Dashboard) with a store that answers: every request that is with the    *)
(* store is eventually answered, with data, with an error or by rejecting. *)
(* The rows of the store change only through the handlers of the pages.    *)
(***************************************************************************)
EditorPages == {"wallets", "transactions"}

\* the store answers the request of slot s, or its answer resumes the handler
StoreAnswers(s) ==
    /\ page \in EditorPages
    /\ \/ MutationApplied(s)
       \/ MutationRefused(s)
       \/ MutationThrows(s)
       \/ SelectExecutes(s)
       \/ /\ ops[s].kind # "idle"
          /\ \E outcome \in SelectOutcomes(ops[s].snap) : FetchReturns(s, outcome)

\* the store answers the select fetchData of the Dashboard waits for
DashboardAnswered ==
    \/ FetchData_Wallets
    \/ FetchData_Transactions
    \/ FetchData_Stats
    \/ FetchData_Throws

\* the store answers the select fetchReportData waits for
ReportAnswered ==
    \/ FetchReportData_Null
    \/ FetchReportData_Throw
    \/ FetchReportData_Data

PagesInit ==
    \/ EditorInit
    \/ ReloadInit
    \/ DashboardInit

PagesNext ==
    \/ page \in EditorPages /\ OpenModalNew
    \/ page \in EditorPages /\ \E w \in wallets : OpenModalEdit(w)
    \/ WalletSetField
    \/ TransactionSetField
    \/ page \in EditorPages /\ HandleSubmit
    \/ DeleteClicked
    \/ \E s \in Slots : StoreAnswers(s)
    \/ ReportAnswered
    \/ EffectRuns
    \/ DashboardAnswered
    \/ DashboardEffectRuns

PagesSpec ==
    /\ PagesInit
    /\ [][PagesNext]_vars
    /\ \A s \in Slots : WF_vars(StoreAnswers(s))
    /\ WF_vars(ReportAnswered)
    /\ WF_vars(DashboardAnswered)

(***************************************************************************)
(* C30.  On the Wallets, Transactions, Reports and Dashboard pages, once   *)
(* the initial load has started and the store answers (with data, an error *)
(* or an exception), loading eventually becomes false and never becomes    *)
(* true again, also during later re-fetches; and isSaving is false again   *)
(* after every submit handler finishes, whether the save succeeded or      *)
(* failed.                                                                 *)
(***************************************************************************)
\* the submit handler of slot s runs to its end in this step
SubmitFinishes(s) ==
    /\ page \in EditorPages
    /\ ops[s].kind = "submit"
    /\ ops'[s] = Idle

C30_LoadingAndSavingEnd ==
    /\ <>(~loading)
    /\ [][~loading => ~loading']_vars
    /\ [][\A s \in Slots : SubmitFinishes(s) => ~isSaving']_vars
    /\ isSaving ~> ~isSaving

\* a save has gone through on the Wallets page and its re-fetch has been
\* delivered: nothing is in flight, the page is rendered and not saving
C30_Witness ==
    /\ page = "wallets"
    /\ AllIdle
    /\ ~loading
    /\ ~isSaving
    /\ \E w \in wallets : w.name = "Trip"

====
